---- MODULE Spec2Model ----
(***************************************************************************)
(* A model of the GraphStore-backed cross-reference service of             *)
(* kythe/go/storage/xrefs/xrefs.go: the reverse-edge bootstrap             *)
(* (EnsureReverseEdges) and the queries Nodes, Edges, Decorations and      *)
(* CrossReferences, over a keyed entry store.  A request is served store   *)
(* call by store call; the bootstrap and one query may be under way at the *)
(* same time, their calls interleaved.                                     *)
(*                                                                         *)
(* Byte strings ([]byte and the strings parsed by strconv.Atoi) are        *)
(* sequences of one-character strings; fact names are sequences of path    *)
(* segments (<<"kythe","node","kind">> is "/kythe/node/kind"); an edge     *)
(* kind is a record of its reverse marker, its base and its ordinal        *)
(* suffix (ord = -1: no ".N" suffix).                                      *)
(***************************************************************************)
EXTENDS Integers, Sequences, FiniteSets, TLC

\* store: the entries of the graph store.  ctx: the context of the requests.
\* boot, task: the bootstrap and the query under way, with the calls they
\* have made.  op, req, reply, err, calls, prev: the request that returned
\* last, what it returned, the store calls it made, and the store its first
\* call found.
VARIABLES store, op, req, reply, err, calls, prev, ctx, boot, task

vars == <<store, op, req, reply, err, calls, prev, ctx, boot, task>>

(***************************************************************************)
(* Bounds of the model.                                                    *)
(***************************************************************************)
\* Largest number of entries of an arbitrary initial store.
MaxStore == 3

(***************************************************************************)
(* VNames and tickets.  A ticket is the URI form of a VName; only the      *)
(* path and signature components vary in this model.                       *)
(***************************************************************************)
VN(p, s) == [path |-> p, signature |-> s]

NoVName == VN("", "")
vF  == VN("f", "")
vA1 == VN("f", "a1")
vA2 == VN("f", "a2")
vX  == VN("", "x")
vY  == VN("", "y")

VNameSeq == <<NoVName, vA1, vA2, vF, vX, vY>>

\* kytheuri.ToString (the name ToString is taken by the TLC module)
UriToString(v) == [scheme |-> "kythe", path |-> v.path, signature |-> v.signature]

\* kytheuri.ToVName: only kythe: URIs parse.
ToVNameOk(t) == t.scheme = "kythe"
ToVName(t) == VN(t.path, t.signature)

BadTicket == [scheme |-> "http", path |-> "", signature |-> "x"]

(***************************************************************************)
(* Edge kinds (schema/edges).                                              *)
(***************************************************************************)
Kind(r, b, o) == [rev |-> r, base |-> b, ord |-> o]

\* The empty edge kind of a node-fact entry, and the "*" of a ReadRequest.
NoKind == Kind(FALSE, "", -1)
Star   == Kind(FALSE, "*", -1)

ChildOf        == Kind(FALSE, "/kythe/edge/childof", -1)
Ref            == Kind(FALSE, "/kythe/edge/ref", -1)
Generates      == Kind(FALSE, "/kythe/edge/generates", -1)
DefinesBinding == Kind(FALSE, "/kythe/edge/defines/binding", -1)
Defines        == Kind(FALSE, "/kythe/edge/defines", -1)
Documents      == Kind(FALSE, "/kythe/edge/documents", -1)
Param1         == Kind(FALSE, "/kythe/edge/param", 1)

RefCall        == Kind(FALSE, "/kythe/edge/ref/call", -1)

BaseSeq == <<"", "*", "/kythe/edge/childof", "/kythe/edge/defines",
             "/kythe/edge/defines/binding", "/kythe/edge/documents",
             "/kythe/edge/generates", "/kythe/edge/param", "/kythe/edge/ref",
             "/kythe/edge/ref/call">>

\* The pairs (kind, prefix) of bases with base = prefix + "/" + more.
SubKinds == {<<"/kythe/edge/defines/binding", "/kythe/edge/defines">>,
             <<"/kythe/edge/ref/call", "/kythe/edge/ref">>}

\* edges.IsReverse: the kind starts with the reverse marker "%".
IsReverse(k) == k.rev
\* edges.IsForward: not reverse (so the empty kind counts as forward).
IsForward(k) == ~IsReverse(k)
\* edges.Mirror: toggle the reverse marker.
Mirror(k) == [k EXCEPT !.rev = ~k.rev]
\* edges.Canonical: the forward form.
Canonical(k) == IF IsReverse(k) THEN Mirror(k) ELSE k
\* edges.ParseOrdinal: <<kind without its ".N" suffix, N or 0, had a suffix>>.
ParseOrdinal(k) ==
    IF k.ord >= 0 THEN <<[k EXCEPT !.ord = -1], k.ord, TRUE>>
    ELSE <<k, 0, FALSE>>

\* edges.IsVariant: x is y or a subkind of y.
IsVariant(x, y) ==
    x = y \/ (x.rev = y.rev /\ <<x.base, y.base>> \in SubKinds)
\* edges.IsAnchorEdge: a kind that links an anchor.
IsAnchorEdge(k) ==
    LET c == Canonical(k)
    IN  IsVariant(c, Defines) \/ IsVariant(c, Documents) \/ IsVariant(c, Ref)

(***************************************************************************)
(* Fact names (schema/facts) and byte strings.                             *)
(***************************************************************************)
FactPrefix == <<"kythe">>

AnchorEnd    == FactPrefix \o <<"loc", "end">>
AnchorStart  == FactPrefix \o <<"loc", "start">>
NodeKind     == FactPrefix \o <<"node", "kind">>
SnippetEnd   == FactPrefix \o <<"snippet", "end">>
SnippetStart == FactPrefix \o <<"snippet", "start">>
Text         == FactPrefix \o <<"text">>
TextEncoding == FactPrefix \o <<"text", "encoding">>
\* The fact name "/" carried by ordinary edge entries.
EdgeFact     == <<>>

FactSeq == <<EdgeFact, AnchorEnd, AnchorStart, NodeKind, SnippetEnd,
             SnippetStart, Text, TextEncoding>>

\* nodes.Anchor = "anchor"
Anchor   == <<"a", "n", "c", "h", "o", "r">>
Function == <<"f", "n">>
Empty    == <<>>

NoReply == <<>>

\* An error is the sequence of its messages, outermost wrapper first; the
\* nil error is the empty sequence.
NoErr == <<>>
Wrap(msg, e) == <<msg>> \o e

(***************************************************************************)
(* Entries and the store.  The store is keyed by (source, edgeKind,        *)
(* factName, target); it delivers entries to a visitor in a per-request    *)
(* order the service does not control.                                     *)
(***************************************************************************)
Entry(s, k, fn, fv, t) ==
    [source |-> s, edgeKind |-> k, factName |-> fn, factValue |-> fv, target |-> t]

Fact(s, fn, fv) == Entry(s, NoKind, fn, fv, NoVName)
Edge(s, k, t)   == Entry(s, k, EdgeFact, Empty, t)

EntryKey(e) == <<e.source, e.edgeKind, e.factName, e.target>>

\* graphstore.IsEdge
IsEdge(e) == e.edgeKind # NoKind

Idx(seq, x) == CHOOSE i \in 1..Len(seq) : seq[i] = x

KindRank(k) ==
    (Idx(BaseSeq, k.base) * 2 + (IF k.rev THEN 0 ELSE 1)) * 8 + (k.ord + 1)

\* The store's key order: source, edge kind, fact name, target.
EntryRank(e) ==
    ((Idx(VNameSeq, e.source) * 256 + KindRank(e.edgeKind)) * 16
        + Idx(FactSeq, e.factName)) * 8 + Idx(VNameSeq, e.target)

\* A delivery order: the entries of source `lead` first, then by key,
\* ascending or descending.
Order(d, l) == [dir |-> d, lead |-> l]
Dirs == {"asc", "desc"}
ReadOrders == {Order(d, NoVName) : d \in Dirs}
ScanOrders == {Order(d, l) : d \in Dirs, l \in {NoVName, vF}}

OrderRank(e, o) ==
    (IF e.source = o.lead THEN 0 ELSE 1) * 1000000
        + (IF o.dir = "asc" THEN EntryRank(e) ELSE 999999 - EntryRank(e))

RECURSIVE Deliver(_, _)
\* The entries of S as the sequence a visitor sees under order o.
Deliver(S, o) ==
    IF S = {} THEN <<>>
    ELSE LET first == CHOOSE e \in S :
                          \A f \in S : OrderRank(e, o) <= OrderRank(f, o)
         IN  <<first>> \o Deliver(S \ {first}, o)

\* graphstore Read: edgeKind "" selects node facts, "*" everything of the
\* source, any other value the edges of exactly that kind.
ReadSet(st, source, kind) ==
    {e \in st : /\ e.source = source
                /\ \/ kind = Star
                   \/ e.edgeKind = kind}

\* A request makes its store calls one after the other, and the bootstrap
\* may write between two of them: the store as a request sees it is the
\* sequence of the stores its calls found, call k finding sees[k] and the
\* calls past the end of sees the last of them.
At(sees, k) == sees[IF k < Len(sees) THEN k ELSE Len(sees)]

\* graphstore Write of one update: the entry replaces the one of its key.
WriteEntry(st, e) == {f \in st : EntryKey(f) # EntryKey(e)} \cup {e}

\* A store call as recorded in the trace of a request.
Call(o, e) == [op |-> o] @@ e
ScanCall == Call("Scan", Entry(NoVName, NoKind, EdgeFact, Empty, NoVName))
ReadCall(source, kind) == Call("Read", Entry(source, kind, EdgeFact, Empty, NoVName))
WriteCall(e) == Call("Write", e)

CallEntry(c) == Entry(c.source, c.edgeKind, c.factName, c.factValue, c.target)

\* The context of the requests and what the store does under it.  reads:
\* the Reads, by source and edge kind, that find the context cancelled and
\* return its error instead of delivering entries.  scan, after: the Scan,
\* by its place in the bootstrap ("sample" for the one of EnsureReverseEdges,
\* "synthesis" for the one of addReverseEdges), that fails once it has
\* delivered `after` entries.  write: the number of the Write that fails, 0
\* for none.  nilValues: whether the store hands an empty fact value to a
\* visitor as a nil slice.
Context(rs, sc, af, wr, nv) ==
    [reads |-> rs, scan |-> sc, after |-> af, write |-> wr, nilValues |-> nv]
NoCancel == Context({}, "", 0, 0, FALSE)
Cancelled(source, kind) == <<source, kind>> \in ctx.reads
ScanFails(site) == ctx.scan = site
WriteFails(k) == ctx.write = k
ErrCanceled == <<"context canceled">>

\* The entries a Scan at `site` delivers of the sequence es it would deliver
\* undisturbed.
ScanDelivered(es, site) ==
    IF ScanFails(site) /\ ctx.after < Len(es) THEN SubSeq(es, 1, ctx.after) ELSE es

\* The least member of a non-empty set of indices.
Min(S) == CHOOSE i \in S : \A j \in S : i <= j

(***************************************************************************)
(* The reverse-edge bootstrap.                                             *)
(***************************************************************************)
\* Mutants of ReverseOf: the kind is not mirrored; the fact value is dropped.
ReverseOfSameKind(e) ==
    Entry(e.target, e.edgeKind, e.factName, e.factValue, e.source)
ReverseOfNoValue(e) ==
    Entry(e.target, Mirror(e.edgeKind), e.factName, Empty, e.source)

\* The reverse entry addReverseEdges writes for a forward edge entry.
ReverseOf(e) ==
    Entry(e.target, Mirror(e.edgeKind), e.factName, e.factValue, e.source)

RECURSIVE WriteAll(_, _)
WriteAll(st, es) ==
    IF es = <<>> THEN st ELSE WriteAll(WriteEntry(st, Head(es)), Tail(es))

\* Mutant of addReverseEdges: each forward edge entry is written again,
\* without its fact value, in place of its reverse.
addReverseEdgesRewriting(st, o) ==
    LET todo == SelectSeq(ScanDelivered(Deliver(st, o), "synthesis"),
                    LAMBDA e : e.edgeKind # NoKind /\ IsForward(e.edgeKind))
        ws   == [i \in 1..Len(todo) |->
                    Entry(todo[i].source, todo[i].edgeKind, todo[i].factName,
                          Empty, todo[i].target)]
        stop == \E i \in 1..Len(ws) : WriteFails(i)
        done == IF stop THEN ctx.write - 1 ELSE Len(ws)
    IN  [err   |-> IF stop THEN Wrap("Failed to write reverse edge", ErrCanceled)
                   ELSE IF ScanFails("synthesis") THEN ErrCanceled
                   ELSE NoErr,
         store |-> WriteAll(st, SubSeq(ws, 1, done)),
         calls |-> <<ScanCall>>
                       \o [i \in 1..(IF stop THEN ctx.write ELSE Len(ws)) |->
                              WriteCall(ws[i])]]

\* addReverseEdges: one Scan, one Write per forward edge entry it delivers.
\* A Write that fails ends the Scan with the wrapped error, the earlier
\* Writes done; a Scan that fails returns its error after the Writes for the
\* entries it delivered.
addReverseEdges(st, o) ==
    LET todo == SelectSeq(ScanDelivered(Deliver(st, o), "synthesis"),
                    LAMBDA e : e.edgeKind # NoKind /\ IsForward(e.edgeKind))
        ws   == [i \in 1..Len(todo) |-> ReverseOf(todo[i])]
        stop == \E i \in 1..Len(ws) : WriteFails(i)
        done == IF stop THEN ctx.write - 1 ELSE Len(ws)
    IN  [err   |-> IF stop THEN Wrap("Failed to write reverse edge", ErrCanceled)
                   ELSE IF ScanFails("synthesis") THEN ErrCanceled
                   ELSE NoErr,
         store |-> WriteAll(st, SubSeq(ws, 1, done)),
         calls |-> <<ScanCall>>
                       \o [i \in 1..(IF stop THEN ctx.write ELSE Len(ws)) |->
                              WriteCall(ws[i])]]

\* Mutant of EnsureReverseEdges: the sampled edge is used without the nil
\* test, which faults on a store without edges.
EnsureReverseEdgesNoNilTest(st, o) ==
    LET es   == SelectSeq(ScanDelivered(Deliver(st, o), "sample"), IsEdge)
        edge == Head(es)
        rd   == ReadCall(edge.target, Mirror(edge.edgeKind))
    IN  IF es = <<>> /\ ScanFails("sample")
        THEN [err |-> ErrCanceled, store |-> st, calls |-> <<ScanCall>>]
        ELSE IF es = <<>>
        THEN [err |-> <<"panic: nil pointer dereference">>, store |-> st,
              calls |-> <<ScanCall>>]
        ELSE IF IsReverse(edge.edgeKind)
             THEN [err |-> NoErr, store |-> st, calls |-> <<ScanCall>>]
        ELSE IF Cancelled(edge.target, Mirror(edge.edgeKind))
             THEN [err |-> Wrap("error checking for reverse edge", ErrCanceled),
                   store |-> st, calls |-> <<ScanCall, rd>>]
        ELSE IF ReadSet(st, edge.target, Mirror(edge.edgeKind)) # {}
             THEN [err |-> NoErr, store |-> st, calls |-> <<ScanCall, rd>>]
        ELSE LET r == addReverseEdges(st, o)
             IN  [r EXCEPT !.calls = <<ScanCall, rd>> \o r.calls]

\* Mutant of EnsureReverseEdges: the result of the mirror Read is ignored.
EnsureReverseEdgesNoFoundTest(st, o) ==
    LET es   == SelectSeq(ScanDelivered(Deliver(st, o), "sample"), IsEdge)
        edge == Head(es)
        rd   == ReadCall(edge.target, Mirror(edge.edgeKind))
    IN  IF es = <<>> /\ ScanFails("sample")
        THEN [err |-> ErrCanceled, store |-> st, calls |-> <<ScanCall>>]
        ELSE IF es = <<>> THEN [err |-> NoErr, store |-> st, calls |-> <<ScanCall>>]
        ELSE IF IsReverse(edge.edgeKind)
             THEN [err |-> NoErr, store |-> st, calls |-> <<ScanCall>>]
        ELSE IF Cancelled(edge.target, Mirror(edge.edgeKind))
             THEN [err |-> Wrap("error checking for reverse edge", ErrCanceled),
                   store |-> st, calls |-> <<ScanCall, rd>>]
        ELSE LET r == addReverseEdges(st, o)
             IN  [r EXCEPT !.calls = <<ScanCall, rd>> \o r.calls]

\* EnsureReverseEdges under delivery order o: the first Scan stops at the
\* first edge entry; a forward one is checked by a Read of its mirror.  The
\* error of the Scan is returned as it is, the one of the Read wrapped.
EnsureReverseEdges(st, o) ==
    LET es   == SelectSeq(ScanDelivered(Deliver(st, o), "sample"), IsEdge)
        edge == Head(es)
        rd   == ReadCall(edge.target, Mirror(edge.edgeKind))
        foundReverse == ReadSet(st, edge.target, Mirror(edge.edgeKind)) # {}
    IN  IF es = <<>> /\ ScanFails("sample")
        THEN [err |-> ErrCanceled, store |-> st, calls |-> <<ScanCall>>]
        ELSE IF es = <<>> THEN [err |-> NoErr, store |-> st, calls |-> <<ScanCall>>]
        ELSE IF IsReverse(edge.edgeKind)
             THEN [err |-> NoErr, store |-> st, calls |-> <<ScanCall>>]
        ELSE IF Cancelled(edge.target, Mirror(edge.edgeKind))
             THEN [err |-> Wrap("error checking for reverse edge", ErrCanceled),
                   store |-> st, calls |-> <<ScanCall, rd>>]
        ELSE IF foundReverse
             THEN [err |-> NoErr, store |-> st, calls |-> <<ScanCall, rd>>]
        ELSE LET r == addReverseEdges(st, o)
             IN  [r EXCEPT !.calls = <<ScanCall, rd>> \o r.calls]

(***************************************************************************)
(* Fact filters (xrefs.ConvertFilters, xrefs.MatchesAny): a filter is a    *)
(* glob over the segments of a fact name, "*" standing for one segment     *)
(* and "**" for any number of them.                                        *)
(***************************************************************************)
RECURSIVE Matches(_, _)
Matches(pat, name) ==
    IF pat = <<>> THEN name = <<>>
    ELSE IF Head(pat) = "**"
         THEN \/ Matches(Tail(pat), name)
              \/ name # <<>> /\ Matches(pat, Tail(name))
    ELSE /\ name # <<>>
         /\ Head(pat) = "*" \/ Head(pat) = Head(name)
         /\ Matches(Tail(pat), Tail(name))

\* One compiled pattern per filter.
ConvertFilters(filter) == filter

MatchesAny(name, patterns) ==
    \E i \in 1..Len(patterns) : Matches(patterns[i], name)

\* The fact map built by assigning each delivered entry's value to its name.
FactMap(es) ==
    [fn \in {e.factName : e \in es} |->
        (CHOOSE e \in es : e.factName = fn).factValue]

NoFacts == FactMap({})

(***************************************************************************)
(* Nodes.                                                                  *)
(***************************************************************************)
ErrInvalidTicket == <<"invalid ticket">>

\* Mutant of FactRetained: an empty filter retains nothing.
FactRetainedOnMatch(patterns, name) == MatchesAny(name, patterns)

\* Whether Nodes retains a fact: every fact under an empty filter, the
\* matching ones otherwise.
FactRetained(patterns, name) ==
    Len(patterns) = 0 \/ MatchesAny(name, patterns)

\* The facts Nodes retains for one source, from a Read of its node facts.
NodeInfo(st, vname, patterns) ==
    FactMap({e \in ReadSet(st, vname, NoKind) :
                FactRetained(patterns, e.factName)})

\* The greatest member of a non-empty set of indices.
Max(S) == CHOOSE i \in S : \A j \in S : j <= i

\* Nodes, as the store calls made + 1 .. made + n of a request that sees the
\* store as sees: one Read per ticket, in the order of the tickets.
Nodes(sees, made, tickets, filter) ==
    LET patterns == ConvertFilters(filter)
        n        == Len(tickets)
        info(i)  == NodeInfo(At(sees, made + i), ToVName(tickets[i]), patterns)
        \* the Reads that retained a fact
        kept     == {i \in 1..n : info(i) # NoFacts}
        \* the tickets whose Read returns the context's error
        failing  == {i \in 1..n : Cancelled(ToVName(tickets[i]), NoKind)}
    IN  IF \E i \in 1..n : ~ToVNameOk(tickets[i])
        THEN [err |-> ErrInvalidTicket, reply |-> NoReply, calls |-> <<>>]
        ELSE IF failing # {}
        THEN [err |-> ErrCanceled, reply |-> NoReply,
              calls |-> [i \in 1..Min(failing) |->
                            ReadCall(ToVName(tickets[i]), NoKind)]]
        ELSE [err   |-> NoErr,
              reply |-> [nodes |->
                  [t \in {tickets[i] : i \in kept}
                      |-> info(Max({i \in kept : tickets[i] = t}))]],
              calls |-> [i \in 1..n |-> ReadCall(ToVName(tickets[i]), NoKind)]]

(***************************************************************************)
(* Edges.                                                                  *)
(***************************************************************************)
\* The paths and signatures of the model in the order of their strings.
StringSeq == <<"", "a1", "a2", "f", "x", "y">>

\* The place of a ticket among the ticket strings in ascending order.  The
\* string is "kythe:", then "?path=" and the path if there is one, then "#"
\* and the signature if there is one: a ticket without a path comes before
\* every ticket with one ("#" sorts before "?"), tickets of one path come
\* with the one without signature first, then by signature.
TicketRank(t) == Idx(StringSeq, t.path) * 8 + Idx(StringSeq, t.signature)

RECURSIVE SortTickets(_)
SortTickets(T) ==
    IF T = {} THEN <<>>
    ELSE LET m == CHOOSE t \in T : \A u \in T : TicketRank(t) <= TicketRank(u)
         IN  <<m>> \o SortTickets(T \ {m})

\* stringset Elements: the tickets in the sorted order of their strings.
Elements(T) == SortTickets(T)

\* The members of a sequence.
SeqRange(q) == {q[i] : i \in DOMAIN q}

RECURSIVE Dedup(_)
\* A sequence without the later occurrences of its members.
Dedup(q) ==
    IF q = <<>> THEN <<>>
    ELSE LET r == Dedup(SubSeq(q, 1, Len(q) - 1))
         IN  IF q[Len(q)] \in SeqRange(r) THEN r ELSE Append(r, q[Len(q)])

\* The order in which a range over a map visits its keys is the runtime's
\* choice, made anew for each loop.  pri is the choice for one loop: the keys
\* in the order it visits them.  Keys pri does not list are visited after
\* the listed ones, in the order of canon, the keys in sorted order.
MapSeq(pri, canon) ==
    LET listed == CHOOSE S \in {SeqRange(pri)} : TRUE
        keys   == CHOOSE S \in {SeqRange(canon)} : TRUE
    IN  SelectSeq(Dedup(pri), LAMBDA x : x \in keys)
            \o SelectSeq(canon, LAMBDA x : x \notin listed)

\* The choices for the loops of one request: lists of <<loop, key>> pairs,
\* the choice for one loop being the keys paired with it.  sets is the
\* choice for the range over the edge sets (a list of tickets), groups the
\* ones for the ranges over the groups of a source ticket, edges for the
\* edges of a <<source, kind>> group, anchors for the anchors in the Nodes
\* reply of the completion of a <<source, kind>> group.
MapOrder(s, g, e, a) == [sets |-> s, groups |-> g, edges |-> e, anchors |-> a]

PairsOf(pri, loop) ==
    LET q == SelectSeq(pri, LAMBDA x : x[1] = loop)
    IN  [i \in 1..Len(q) |-> q[i][2]]


\* Whether an edge of parsed kind k passes the request's kind allow-list.
KindAllowed(kinds, k) ==
    Len(kinds) = 0 \/ \E i \in 1..Len(kinds) : kinds[i] = k

\* filteredEdges of one source: parsed kind -> its (target, ordinal) pairs.
FilteredEdges(es, kinds) ==
    LET kept == {e \in es : /\ e.edgeKind # NoKind
                            /\ KindAllowed(kinds, ParseOrdinal(e.edgeKind)[1])}
    IN  [k \in {ParseOrdinal(e.edgeKind)[1] : e \in kept} |->
            {[targetTicket |-> UriToString(e.target),
              ordinal      |-> ParseOrdinal(e.edgeKind)[2]] :
                e \in {f \in kept : ParseOrdinal(f.edgeKind)[1] = k}}]

\* filteredFacts of one source: its node facts matching the filter.
FilteredFacts(es, patterns) ==
    FactMap({e \in es : /\ e.edgeKind = NoKind
                        /\ Len(patterns) > 0
                        /\ MatchesAny(e.factName, patterns)})

\* Mutant of EdgeSetEmitted: an EdgeSet is added for every source.
EdgeSetEmittedAlways(groups) == TRUE

\* Whether an EdgeSet is added for a source with these filteredEdges.
EdgeSetEmitted(groups) == DOMAIN groups # {}

GroupTargets(groups) ==
    UNION {{x.targetTicket : x \in groups[k]} : k \in DOMAIN groups}

\* The part of a function on the keys in D.
Restrict(f, D) == [x \in D |-> f[x]]

\* The map m with the entries of n assigned over it.
Merge(m, n) ==
    [x \in DOMAIN m \cup DOMAIN n |-> IF x \in DOMAIN n THEN n[x] ELSE m[x]]

\* Edges, as the store calls from made + 1 on of a request that sees the
\* store as sees: one Read per ticket, then the Reads of Nodes for the
\* targets under a filter.
Edges(sees, made, q) ==
    LET n        == Len(q.ticket)
        patterns == ConvertFilters(q.filter)
        bad      == {i \in 1..n : ~ToVNameOk(q.ticket[i])}
        \* the tickets whose Read returns the context's error
        failing  == {i \in (1..n) \ bad : Cancelled(ToVName(q.ticket[i]), Star)}
        \* the ticket the loop stops at, and whether at its Read
        stop     == Min(bad \cup failing)
        readFails == bad \cup failing # {} /\ stop \in failing
        \* the tickets whose Read is issued: those before a bad ticket, or up
        \* to the one whose Read fails
        last     == IF bad \cup failing = {} THEN n
                    ELSE IF stop \in failing THEN stop ELSE stop - 1
        reads    == [i \in 1..last |-> ReadCall(ToVName(q.ticket[i]), Star)]
        \* what the Read of ticket i delivers
        es(i)    == ReadSet(At(sees, made + i), ToVName(q.ticket[i]), Star)
        groups(i) == FilteredEdges(es(i), q.kind)
        facts(i)  == FilteredFacts(es(i), patterns)
        \* the tickets an EdgeSet is assigned for, and those of them a
        \* NodeInfo is assigned for; a later assignment replaces an earlier
        emitted  == {i \in 1..n : EdgeSetEmitted(groups(i))}
        withInfo == {i \in emitted : facts(i) # NoFacts}
        edgeSets == [t \in {q.ticket[i] : i \in emitted} |->
                        groups(Max({i \in emitted : q.ticket[i] = t}))]
        own      == [t \in {q.ticket[i] : i \in withInfo} |->
                        facts(Max({i \in withInfo : q.ticket[i] = t}))]
        targetSet == UNION {GroupTargets(groups(i)) : i \in emitted}
        nr       == Nodes(sees, made + n, Elements(targetSet \ DOMAIN own),
                          q.filter)
    IN  IF n = 0
        THEN [err |-> <<"no tickets specified">>, reply |-> NoReply, calls |-> <<>>]
        ELSE IF q.pageToken # ""
        THEN [err |-> <<"UNIMPLEMENTED: page_token">>, reply |-> NoReply,
              calls |-> <<>>]
        ELSE IF readFails
        THEN [err |-> <<"failed to retrieve entries for ticket">>,
              reply |-> NoReply, calls |-> reads]
        ELSE IF bad # {}
        THEN [err |-> Wrap("invalid ticket", ErrInvalidTicket), reply |-> NoReply,
              calls |-> reads]
        ELSE IF Len(q.filter) > 0
        THEN IF nr.err # NoErr
             THEN [err |-> Wrap("failure getting target nodes", nr.err),
                   reply |-> NoReply, calls |-> reads \o nr.calls]
             ELSE [err |-> NoErr,
                   reply |-> [edgeSets |-> edgeSets,
                              nodes |-> Merge(own, nr.reply.nodes),
                              nextPageToken |-> ""],
                   calls |-> reads \o nr.calls]
        ELSE [err |-> NoErr,
              reply |-> [edgeSets |-> edgeSets, nodes |-> own, nextPageToken |-> ""],
              calls |-> reads]

(***************************************************************************)
(* Numbers in facts (strconv.Atoi over a decimal byte string).             *)
(***************************************************************************)
Digits == <<"0", "1", "2", "3", "4", "5", "6", "7", "8", "9">>

IsDigit(c) == \E d \in 1..10 : Digits[d] = c
DigitVal(c) == (CHOOSE d \in 1..10 : Digits[d] = c) - 1

RECURSIVE DecVal(_)
DecVal(bs) ==
    IF bs = <<>> THEN 0
    ELSE DecVal(SubSeq(bs, 1, Len(bs) - 1)) * 10 + DigitVal(bs[Len(bs)])

\* strconv.Atoi: an optional sign and at least one digit, nothing else.
Atoi(bs) ==
    LET signed == bs # <<>> /\ bs[1] \in {"+", "-"}
        ds     == IF signed THEN Tail(bs) ELSE bs
    IN  IF ds = <<>> \/ \E i \in 1..Len(ds) : ~IsDigit(ds[i])
        THEN [ok |-> FALSE, val |-> 0]
        ELSE [ok |-> TRUE,
              val |-> IF signed /\ bs[1] = "-" THEN 0 - DecVal(ds) ELSE DecVal(ds)]

RECURSIVE Itoa(_)
\* The decimal byte string of a natural number.
Itoa(n) == IF n < 10 THEN <<Digits[n + 1]>>
           ELSE Itoa(n \div 10) \o <<Digits[(n % 10) + 1]>>

\* A Go map read: the value of a missing key is empty.
Get(m, k) == IF k \in DOMAIN m THEN m[k] ELSE <<>>

(***************************************************************************)
(* The Normalizer (xrefs.NewNormalizer, ByteOffset, Point, Location).      *)
(***************************************************************************)
Pt(b, l, c) == [byteOffset |-> b, lineNumber |-> l, columnOffset |-> c]
NilPoint == Pt(-1, -1, -1)

\* prefixLen: the byte offset at which each line starts (lines are 1-based).
PrefixLen(text) ==
    <<0>> \o SelectSeq([i \in 1..Len(text) |-> IF text[i] = "\n" THEN i ELSE -1],
                       LAMBDA x : x >= 0)

\* lineLen: the length of each line, its line end counted.
LineLen(text) ==
    LET pl == PrefixLen(text)
    IN  [i \in 1..Len(pl) |->
            IF i < Len(pl) THEN pl[i + 1] - pl[i] ELSE Len(text) - pl[i] + 1]

NewNormalizer(text) ==
    [textLen |-> Len(text), lineLen |-> LineLen(text), prefixLen |-> PrefixLen(text)]

\* Normalizer.ByteOffset: the offset clamped to the text, with the greatest
\* line starting at or before it and the column within that line.
ByteOffset(norm, offset) ==
    LET b    == IF offset > norm.textLen THEN norm.textLen ELSE offset
        line == Cardinality({i \in 1..Len(norm.prefixLen) : norm.prefixLen[i] <= b})
    IN  Pt(b, line, b - norm.prefixLen[line])

\* Normalizer.Point: completes a point from its byte offset, else from its
\* line and column, else the start of the text.
Point(norm, p) ==
    IF p.byteOffset > 0 THEN ByteOffset(norm, p.byteOffset)
    ELSE IF p.lineNumber > 0
    THEN LET total == Len(norm.lineLen)
             line  == IF p.lineNumber > total THEN total ELSE p.lineNumber
             col0  == IF p.lineNumber > total THEN norm.lineLen[line] - 1
                      ELSE p.columnOffset
             col   == IF col0 < 0 THEN 0
                      ELSE IF col0 > 0 /\ p.columnOffset > norm.lineLen[line] - 1
                           THEN norm.lineLen[line] - 1
                      ELSE col0
         IN  Pt(norm.prefixLen[line] + col, line, col)
    ELSE Pt(0, 1, 0)

Loc(t, k, s, e) == [present |-> TRUE, ticket |-> t, kind |-> k, start |-> s, end |-> e]
NilLocation == [present |-> FALSE, ticket |-> UriToString(NoVName), kind |-> "FILE",
                start |-> NilPoint, end |-> NilPoint]

\* Normalizer.Location: a FILE location loses its points; a SPAN location
\* needs both, normalized and in order.
Location(norm, loc) ==
    IF loc.kind = "FILE"
    THEN [err |-> NoErr, loc |-> Loc(loc.ticket, "FILE", NilPoint, NilPoint)]
    ELSE IF loc.start = NilPoint
    THEN [err |-> <<"invalid SPAN: missing start point">>, loc |-> NilLocation]
    ELSE IF loc.end = NilPoint
    THEN [err |-> <<"invalid SPAN: missing end point">>, loc |-> NilLocation]
    ELSE LET st == Point(norm, loc.start)
             en == Point(norm, loc.end)
         IN  IF st.byteOffset > en.byteOffset
             THEN [err |-> <<"invalid SPAN: start is after end">>, loc |-> NilLocation]
             ELSE [err |-> NoErr, loc |-> Loc(loc.ticket, "SPAN", st, en)]

\* xrefs.InSpanBounds
InSpanBounds(kind, start, end, startBoundary, endBoundary) ==
    IF kind = "WITHIN_SPAN" THEN start >= startBoundary /\ end <= endBoundary
    ELSE IF kind = "AROUND_SPAN" THEN start <= startBoundary /\ end >= endBoundary
    ELSE FALSE

\* text[start:end]
Slice(text, start, end) == SubSeq(text, start + 1, end)

(***************************************************************************)
(* Decorations.                                                            *)
(***************************************************************************)
revChildOfEdgeKind == Mirror(ChildOf)

\* getSourceText: a Read of the file's node facts; text is nil without a
\* text fact.
getSourceText(sees, made, fileVName) ==
    LET es == ReadSet(At(sees, made + 1), fileVName, NoKind)
        m  == FactMap(es)
    IN  [err      |-> IF Cancelled(fileVName, NoKind)
                      THEN Wrap("read error", ErrCanceled)
                      ELSE IF Text \in DOMAIN m
                              /\ ~(m[Text] = <<>> /\ ctx.nilValues)
                      THEN NoErr
                      ELSE <<"file not found">>,
         text     |-> IF Cancelled(fileVName, NoKind) THEN <<>> ELSE Get(m, Text),
         encoding |-> IF Cancelled(fileVName, NoKind) THEN <<>>
                      ELSE Get(m, TextEncoding),
         calls    |-> <<ReadCall(fileVName, NoKind)>>]

\* The two predicates Decorations passes to getEdges: the file's children
\* (reverse childof edges) and an anchor's targets (forward edges other
\* than childof).
IsChildEdge(e)  == e.edgeKind = revChildOfEdgeKind
IsTargetEdge(e) == IsForward(e.edgeKind) /\ e.edgeKind # ChildOf

EdgePred(pred, e) == IF pred = "children" THEN IsChildEdge(e) ELSE IsTargetEdge(e)

\* getEdges: a Read of everything of the node, keeping in delivery order the
\* edges pred accepts, their kinds parsed.
getEdges(sees, made, node, pred, o) ==
    LET es == SelectSeq(Deliver(ReadSet(At(sees, made + 1), node, Star), o),
                        LAMBDA e : IsEdge(e) /\ EdgePred(pred, e))
    IN  IF Cancelled(node, Star)
        THEN [err |-> Wrap("read error", ErrCanceled), targets |-> <<>>,
              calls |-> <<ReadCall(node, Star)>>]
        ELSE [err |-> NoErr,
              targets |-> [i \in 1..Len(es) |->
                            [kind    |-> ParseOrdinal(es[i].edgeKind)[1],
                             target  |-> es[i].target,
                             ordinal |-> ParseOrdinal(es[i].edgeKind)[2]]],
              calls |-> <<ReadCall(node, Star)>>]

\* filterNode: the facts matching the patterns; nil (no facts) when the
\* patterns or the matches are empty.
filterNode(patterns, facts) ==
    IF Len(patterns) = 0 THEN NoFacts
    ELSE Restrict(facts, {n \in DOMAIN facts : MatchesAny(n, patterns)})

\* Mutants of Less: the end offsets are not compared; the order is reversed.
LessByStart(a, b) == a.anchorStart.byteOffset < b.anchorStart.byteOffset
LessReversed(a, b) ==
    IF a.anchorStart.byteOffset > b.anchorStart.byteOffset THEN TRUE
    ELSE IF a.anchorStart.byteOffset < b.anchorStart.byteOffset THEN FALSE
    ELSE a.anchorEnd.byteOffset > b.anchorEnd.byteOffset

\* bySpan.Less
Less(a, b) ==
    IF a.anchorStart.byteOffset < b.anchorStart.byteOffset THEN TRUE
    ELSE IF a.anchorStart.byteOffset > b.anchorStart.byteOffset THEN FALSE
    ELSE a.anchorEnd.byteOffset < b.anchorEnd.byteOffset

RECURSIVE InsertSorted(_, _)
\* One pass of the insertion sort: x moves left past every element it is
\* Less than.
InsertSorted(sorted, x) ==
    IF sorted = <<>> THEN <<x>>
    ELSE IF Less(x, sorted[Len(sorted)])
         THEN InsertSorted(SubSeq(sorted, 1, Len(sorted) - 1), x)
                  \o <<sorted[Len(sorted)]>>
    ELSE sorted \o <<x>>

RECURSIVE InsertionSort(_)
\* The insertion sort, which keeps the order of elements neither of which is
\* Less than the other.
InsertionSort(refs) ==
    IF refs = <<>> THEN <<>>
    ELSE InsertSorted(InsertionSort(SubSeq(refs, 1, Len(refs) - 1)),
                      refs[Len(refs)])

\* sort.Sort(bySpan(refs)): the references in an order in which none is Less
\* than one before it.  The sort is not stable: ties lists positions of refs,
\* and references neither of which is Less than the other come in the order
\* of their positions in it, unlisted positions last.
SortBySpan(refs, ties) ==
    LET at == MapSeq(ties, [i \in 1..Len(refs) |-> i])
    IN  InsertionSort(CHOOSE p \in {[i \in 1..Len(refs) |-> refs[at[i]]]} : TRUE)

\* Mutant of AnchorSpanValid: the span test is made for every location kind.
AnchorSpanValidAnyKind(loc, spanKind, anchorStart, anchorEnd) ==
    /\ loc.kind = "SPAN" =>
          InSpanBounds(spanKind, anchorStart, anchorEnd,
                       loc.start.byteOffset, loc.end.byteOffset)
    /\ anchorStart <= anchorEnd

\* Whether an anchor passes the window test of a SPAN location; no test is
\* made for a FILE location.
AnchorSpanValid(loc, spanKind, anchorStart, anchorEnd) ==
    loc.kind = "SPAN" =>
        /\ InSpanBounds(spanKind, anchorStart, anchorEnd,
                        loc.start.byteOffset, loc.end.byteOffset)
        /\ anchorStart <= anchorEnd

\* The body of the loop over the file's children, for one child edge: the
\* outcome is an error, a skip, or the anchor's references.
DecorationsChild(sees, made, q, loc, norm, edge, o) ==
    LET anchor   == edge.target
        ticket   == UriToString(anchor)
        patterns == ConvertFilters(q.filter)
        \* nr is the reply of the Nodes call for the anchor, ge the result of
        \* getEdges for its targets
        Child(nr, ge) ==
            LET node == nr.reply.nodes[ticket]
                none == [err |-> NoErr, refs |-> <<>>, nodes |-> <<>>,
                         targets |-> {}, calls |-> nr.calls]
                \* s and e are the parsed start and end facts
                Span(s, e) ==
                    IF ~s.ok \/ ~e.ok THEN none
                    ELSE IF ~AnchorSpanValid(loc, q.spanKind, s.val, e.val) THEN none
                    ELSE IF ge.err # NoErr
                    THEN [none EXCEPT
                             !.err = Wrap("failed to retrieve targets of anchor",
                                          ge.err),
                             !.calls = nr.calls \o ge.calls]
                    ELSE IF ge.targets = <<>>
                    THEN [none EXCEPT !.calls = nr.calls \o ge.calls]
                    ELSE [err     |-> NoErr,
                          refs    |-> [i \in 1..Len(ge.targets) |->
                                        [sourceTicket |-> ticket,
                                         kind         |-> ge.targets[i].kind,
                                         targetTicket |->
                                             UriToString(ge.targets[i].target),
                                         anchorStart  |-> ByteOffset(norm, s.val),
                                         anchorEnd    |-> ByteOffset(norm, e.val)]],
                          nodes   |-> IF filterNode(patterns, node) = NoFacts THEN <<>>
                                      ELSE <<[ticket |-> ticket,
                                              facts |-> filterNode(patterns, node)]>>,
                          targets |-> {UriToString(ge.targets[i].target) :
                                          i \in 1..Len(ge.targets)},
                          calls   |-> nr.calls \o ge.calls]
            IN  IF nr.err # NoErr
                THEN [none EXCEPT
                         !.err = Wrap("failure getting reference source node", nr.err)]
                ELSE IF Cardinality(DOMAIN nr.reply.nodes) # 1
                THEN [none EXCEPT !.err = <<"found 0 nodes">>]
                ELSE IF Get(node, NodeKind) # Anchor THEN none
                ELSE Span(Atoi(Get(node, AnchorStart)), Atoi(Get(node, AnchorEnd)))
    IN  Child(Nodes(sees, made, <<ticket>>, <<>>),
              getEdges(sees, made + 1, anchor, "targets", o))

RECURSIVE DecorationsChildren(_, _, _, _, _, _, _)
\* The loop over the file's children, stopping at the first error.
DecorationsChildren(sees, q, loc, norm, children, o, acc) ==
    IF children = <<>> THEN acc
    ELSE LET Step(c) ==
                 LET next == [err     |-> c.err,
                              refs    |-> acc.refs \o c.refs,
                              nodes   |-> acc.nodes \o c.nodes,
                              targets |-> acc.targets \cup c.targets,
                              calls   |-> acc.calls \o c.calls]
                 IN  IF c.err # NoErr THEN next
                     ELSE DecorationsChildren(sees, q, loc, norm, Tail(children), o,
                                              next)
         IN  Step(DecorationsChild(sees, Len(acc.calls), q, loc, norm,
                                   Head(children), o))

\* The node map built by assigning a sequence of (ticket, facts) in order.
NodeMap(ns) ==
    [t \in {ns[i].ticket : i \in 1..Len(ns)} |->
        ns[CHOOSE i \in 1..Len(ns) :
              ns[i].ticket = t /\ \A j \in (i + 1)..Len(ns) : ns[j].ticket # t].facts]

NoText == <<>>

\* Decorations from the References switch on: loop is the outcome of the
\* loop over the file's children; the references are sorted and, under a
\* filter, the facts of the targets not yet in the reply are fetched.
DecorationsReferences(sees, q, result, loop, o) ==
    LET fail(e, cs) == [err |-> e, reply |-> NoReply, calls |-> cs]
        own  == NodeMap(loop.nodes)
        refs == SortBySpan(loop.refs, o.ties)
        \* nr is the reply of the Nodes call for the targets
        WithTargets(nr) ==
            IF nr.err # NoErr
            THEN fail(Wrap("failure getting reference target nodes", nr.err),
                      loop.calls \o nr.calls)
            ELSE [err |-> NoErr,
                  reply |-> [result EXCEPT !.reference = refs,
                                           !.nodes = Merge(own, nr.reply.nodes)],
                  calls |-> loop.calls \o nr.calls]
    IN  IF loop.err # NoErr THEN fail(loop.err, loop.calls)
        ELSE IF Len(q.filter) > 0
        THEN WithTargets(Nodes(sees, Len(loop.calls),
                               Elements(loop.targets \ DOMAIN own), q.filter))
        ELSE [err |-> NoErr,
              reply |-> [result EXCEPT !.reference = refs, !.nodes = own],
              calls |-> loop.calls]

\* Decorations from the normalized location nl on: the reply with its
\* source text, then the references of the file's children.
DecorationsLocation(sees, q, o, fileVName, src, norm, nl) ==
    LET loc    == nl.loc
        result == [location   |-> loc,
                   sourceText |-> IF ~q.sourceText THEN NoText
                                  ELSE IF loc.kind = "FILE" THEN src.text
                                  ELSE Slice(src.text, loc.start.byteOffset,
                                             loc.end.byteOffset),
                   encoding   |-> IF q.sourceText THEN src.encoding ELSE <<>>,
                   reference  |-> <<>>,
                   nodes      |-> NoFacts]
        ch     == getEdges(sees, Len(src.calls), fileVName, "children", o)
    IN  IF nl.err # NoErr
        THEN [err |-> nl.err, reply |-> NoReply, calls |-> src.calls]
        ELSE IF ~q.references
        THEN [err |-> NoErr, reply |-> result, calls |-> src.calls]
        ELSE IF ch.err # NoErr
        THEN [err |-> Wrap("failed to retrieve file children", ch.err),
              reply |-> NoReply, calls |-> src.calls \o ch.calls]
        ELSE DecorationsReferences(sees, q, result,
                 DecorationsChildren(sees, q, loc, norm, ch.targets, o,
                     [err |-> NoErr, refs |-> <<>>, nodes |-> <<>>,
                      targets |-> {}, calls |-> src.calls \o ch.calls]),
                 o)

\* Decorations from the file's text on: src is the result of getSourceText.
DecorationsText(sees, q, o, fileVName, src, norm) ==
    IF src.err # NoErr
    THEN [err |-> Wrap("failed to retrieve file text", src.err),
          reply |-> NoReply, calls |-> src.calls]
    ELSE DecorationsLocation(sees, q, o, fileVName, src, norm,
                             Location(norm, q.location))

\* Decorations of a request that sees the store as sees.
Decorations(sees, q, o) ==
    LET fileVName == ToVName(q.location.ticket)
        fail(e, cs) == [err |-> e, reply |-> NoReply, calls |-> cs]
    IN  IF Len(q.dirtyBuffer) > 0 THEN fail(<<"UNIMPLEMENTED: dirty buffers">>, <<>>)
        ELSE IF ~q.location.present THEN fail(<<"missing location">>, <<>>)
        ELSE IF ~ToVNameOk(q.location.ticket)
        THEN fail(Wrap("invalid file ticket", ErrInvalidTicket), <<>>)
        ELSE DecorationsText(sees, q, o, fileVName,
                             getSourceText(sees, 0, fileVName),
                             NewNormalizer(getSourceText(sees, 0, fileVName).text))

(***************************************************************************)
(* CrossReferences and anchor completion.                                  *)
(***************************************************************************)
defaultXRefPageSize == 1024

\* xrefs.IsDefKind (no declarations: incomplete is false)
IsDefKind(requested, kind) ==
    LET k == Canonical(kind)
    IN  CASE requested = "FULL_DEFINITIONS"    -> k = Defines
          [] requested = "BINDING_DEFINITIONS" -> k = DefinesBinding
          [] requested = "ALL_DEFINITIONS"     -> IsVariant(k, Defines)
          [] OTHER                             -> FALSE

\* xrefs.IsRefKind
IsRefKind(requested, kind) ==
    LET k == Canonical(kind)
    IN  CASE requested = "CALL_REFERENCES"     -> IsVariant(k, RefCall)
          [] requested = "NON_CALL_REFERENCES" ->
                 ~IsVariant(k, RefCall) /\ IsVariant(k, Ref)
          [] requested = "ALL_REFERENCES"      -> IsVariant(k, Ref)
          [] OTHER                             -> FALSE

\* xrefs.IsDocKind
IsDocKind(requested, kind) ==
    requested = "ALL_DOCUMENTATION" /\ IsVariant(Canonical(kind), Documents)

\* schema.AnchorLocFilter, schema.SnippetLocFilter
AnchorLocFilter  == <<"kythe", "loc", "*">>
SnippetLocFilter == <<"kythe", "snippet", "*">>

\* tickets.AnchorFile: the ticket of the anchor's file, its signature dropped.
AnchorFile(t) == [scheme |-> "kythe", path |-> t.path, signature |-> ""]

UTF8 == <<"U", "T", "F", "-", "8">>

\* text.ToUTF8: the bytes themselves under UTF-8 (the default encoding);
\* an unknown encoding is an error and yields no text.
ToUTF8(encoding, bytes) ==
    IF encoding \in {<<>>, UTF8} THEN bytes ELSE <<>>

Panic == <<"panic">>

\* getSpan: both facts present, decimal, and in order.
getSpan(facts, startFact, endFact) ==
    LET start == Get(facts, startFact)
        end   == Get(facts, endFact)
        so    == Atoi(start)
        eo    == Atoi(end)
    IN  IF start = <<>> \/ end = <<>> \/ ~so.ok \/ ~eo.ok \/ so.val > eo.val
        THEN [ok |-> FALSE, start |-> 0, end |-> 0]
        ELSE [ok |-> TRUE, start |-> so.val, end |-> eo.val]

\* normalizeSpan: the offsets as points; an error when normalization moved
\* one of them.
normalizeSpan(norm, startOffset, endOffset) ==
    LET start == ByteOffset(norm, startOffset)
        end   == ByteOffset(norm, endOffset)
    IN  [ok    |-> start.byteOffset = startOffset /\ end.byteOffset = endOffset,
         start |-> start, end |-> end]

\* The body of completeAnchors' loop for one anchor of the Nodes reply:
\* files is the cache of parent files, facts the anchor's location facts.
\* The start of the line-based snippet: the start of the anchor's line.
lineSnippetStart(start) ==
    Pt(start.byteOffset - start.columnOffset, start.lineNumber, 0)

\* Mutant of lineSnippetEnd: the snippet runs up to the next line's start.
lineSnippetEndAtNextLine(start, nextLine) ==
    Pt(nextLine.byteOffset, start.lineNumber,
       start.columnOffset + (nextLine.byteOffset - start.byteOffset))

\* The end of the line-based snippet: the byte before nextLine, the start
\* of the line after the anchor's.
lineSnippetEnd(start, nextLine) ==
    Pt(nextLine.byteOffset - 1, start.lineNumber,
       start.columnOffset + (nextLine.byteOffset - start.byteOffset - 1))

completeAnchor(sees, made, retrieveText, files, edgeKind, ticket, facts) ==
    LET parent == AnchorFile(ticket)
        out(e, as, fs, cs) == [err |-> e, anchors |-> as, files |-> fs, calls |-> cs]
        \* The anchor completed against its file: span is its span, file its
        \* parent's fileNode, files2 the cache with it, cs the calls issued.
        Complete(span, file, files2, cs) ==
            LET \* ns is the normalized span, snip the snippet facts' span
                Bounds(ns, snip) ==
                    LET aText == IF retrieveText
                                    /\ ns.start.byteOffset < ns.end.byteOffset
                                 THEN ToUTF8(file.encoding,
                                          Slice(file.text, ns.start.byteOffset,
                                                ns.end.byteOffset))
                                 ELSE <<>>
                        \* sn is the normalized snippet span, nextLine the
                        \* start of the line after the anchor's
                        Snippet(sn, nextLine) ==
                            LET given    == snip.ok /\ sn.ok
                                snippet1 == IF given
                                            THEN ToUTF8(file.encoding,
                                                     Slice(file.text,
                                                           sn.start.byteOffset,
                                                           sn.end.byteOffset))
                                            ELSE <<>>
                                \* the line-based snippet
                                lineStart == lineSnippetStart(ns.start)
                                lineEnd   == lineSnippetEnd(ns.start, nextLine)
                                fallback == snippet1 = <<>>
                                badSlice == \/ lineStart.byteOffset > lineEnd.byteOffset
                                            \/ lineEnd.byteOffset > Len(file.text)
                            IN  IF fallback /\ badSlice
                                THEN out(Panic, <<>>, files2, cs)
                                ELSE out(NoErr,
                                         <<[ticket  |-> ticket,
                                            kind    |-> edgeKind,
                                            parent  |-> parent,
                                            start   |-> ns.start,
                                            end     |-> ns.end,
                                            text    |-> aText,
                                            snippet |->
                                                IF fallback
                                                THEN ToUTF8(file.encoding,
                                                         Slice(file.text,
                                                               lineStart.byteOffset,
                                                               lineEnd.byteOffset))
                                                ELSE snippet1,
                                            snippetStart |-> IF fallback THEN lineStart
                                                             ELSE sn.start,
                                            snippetEnd   |-> IF fallback THEN lineEnd
                                                             ELSE sn.end]>>,
                                         files2, cs)
                    IN  IF ~ns.ok THEN out(NoErr, <<>>, files2, cs)
                        ELSE Snippet(normalizeSpan(file.norm, snip.start, snip.end),
                                     Point(file.norm,
                                           Pt(0, ns.start.lineNumber + 1, 0)))
            IN  Bounds(normalizeSpan(file.norm, span.start, span.end),
                       getSpan(facts, SnippetStart, SnippetEnd))
        \* The parent file fetched by a Nodes call whose reply is rsp.
        Fetch(span, rsp) ==
            LET fetched == rsp.reply.nodes
                info    == fetched[parent]
                text0   == Get(info, Text)
                file    == [text     |-> text0,
                            encoding |-> Get(info, TextEncoding),
                            norm     |-> NewNormalizer(text0)]
            IN  IF rsp.err # NoErr
                THEN out(Wrap("fetching file contents", rsp.err), <<>>, files,
                         rsp.calls)
                ELSE IF parent \notin DOMAIN fetched
                THEN out(Panic, <<>>, files, rsp.calls)
                ELSE Complete(span, file, Merge(files, [f \in {parent} |-> file]),
                              rsp.calls)
        \* span is the anchor's span from its location facts
        Start(span) ==
            IF ~span.ok THEN out(NoErr, <<>>, files, <<>>)
            ELSE IF parent \in DOMAIN files
            THEN Complete(span, files[parent], files, <<>>)
            ELSE Fetch(span, Nodes(sees, made, <<parent>>, <<>>))
    IN  Start(getSpan(facts, AnchorStart, AnchorEnd))

RECURSIVE completeAnchorsLoop(_, _, _, _, _, _, _)
\* The loop over the anchors of the Nodes reply, stopping at the first error.
completeAnchorsLoop(sees, made, retrieveText, edgeKind, todo, nodes, acc) ==
    IF todo = <<>> THEN acc
    ELSE LET Step(r) ==
                 LET next == [err     |-> r.err,
                              anchors |-> acc.anchors \o r.anchors,
                              files   |-> r.files,
                              calls   |-> acc.calls \o r.calls]
                 IN  IF r.err # NoErr THEN next
                     ELSE completeAnchorsLoop(sees, made, retrieveText, edgeKind,
                                              Tail(todo), nodes, next)
         IN  Step(completeAnchor(sees, made + Len(acc.calls), retrieveText,
                                 acc.files, edgeKind, Head(todo),
                                 nodes[Head(todo)]))

\* The tickets of T in the order a range over a map with these keys visits
\* them under the choice pri.
TicketSeq(T, pri) == MapSeq(pri, Elements(T))

\* completeAnchors: the anchors' location facts by one Nodes call, then each
\* anchor of the reply completed against its (cached) parent file.
completeAnchors(sees, made, retrieveText, files, edgeKind, anchors, pri) ==
    LET nr == Nodes(sees, made, anchors, <<AnchorLocFilter, SnippetLocFilter>>)
    IN  IF \E i \in 1..Len(anchors) : ~ToVNameOk(anchors[i])
        THEN [err |-> Wrap("invalid anchor", ErrInvalidTicket), anchors |-> <<>>,
              files |-> files, calls |-> <<>>]
        ELSE IF nr.err # NoErr
        THEN [err |-> nr.err, anchors |-> <<>>, files |-> files,
              calls |-> nr.calls]
        ELSE completeAnchorsLoop(sees, made, retrieveText, Canonical(edgeKind),
                 TicketSeq(DOMAIN nr.reply.nodes, pri), nr.reply.nodes,
                 [err |-> NoErr, anchors |-> <<>>, files |-> files,
                  calls |-> nr.calls])

RECURSIVE SortEdges(_)
SortEdges(E) ==
    IF E = {} THEN <<>>
    ELSE LET rank(x) == Idx(VNameSeq, ToVName(x.targetTicket)) * 16 + x.ordinal
             m == CHOOSE x \in E : \A y \in E : rank(x) <= rank(y)
         IN  <<m>> \o SortEdges(E \ {m})

\* The edge list Edges builds for a group with the edges E: the targets in
\* the order of the range over them, each with its ordinals in the order of
\* the range over those.  pri lists edges: the targets are visited in the
\* order of their first edge in it, the ordinals of a target in the order of
\* its edges.
EdgeSeq(E, pri) ==
    LET ts == TicketSeq({e.targetTicket : e \in E},
                        [i \in 1..Len(pri) |-> pri[i].targetTicket])
        of(t) == MapSeq(SelectSeq(pri, LAMBDA e : e.targetTicket = t),
                        SortEdges({e \in E : e.targetTicket = t}))
        RECURSIVE cat(_)
        cat(i) == IF i > Len(ts) THEN <<>> ELSE of(ts[i]) \o cat(i + 1)
    IN  cat(1)

\* edgeTickets
edgeTickets(edges) == [i \in 1..Len(edges) |-> edges[i].targetTicket]

RECURSIVE SortKinds(_)
SortKinds(K) ==
    IF K = {} THEN <<>>
    ELSE LET m == CHOOSE k \in K : \A l \in K : KindRank(k) <= KindRank(l)
         IN  <<m>> \o SortKinds(K \ {m})

\* The (source, kind) groups of an Edges reply in the order the range over
\* the edge sets and, within it, the range over a set's groups visit them.
GroupSeq(edgeSets, o) ==
    LET src == TicketSeq(DOMAIN edgeSets, o.sets)
        of(t) == LET ks == MapSeq(PairsOf(o.groups, t),
                                  SortKinds(DOMAIN edgeSets[t]))
                 IN  [i \in 1..Len(ks) |-> [source |-> t, kind |-> ks[i]]]
        RECURSIVE cat(_)
        cat(i) == IF i > Len(src) THEN <<>> ELSE of(src[i]) \o cat(i + 1)
    IN  cat(1)

EmptySet(t) == [ticket |-> t, definition |-> <<>>, reference |-> <<>>,
                documentation |-> <<>>, relatedNode |-> <<>>, count |-> 0]

\* Mutant of RelatedNodesWanted: related nodes are wanted when the request
\* carries a filter.
RelatedNodesWantedOnFilter(q, allRelatedNodes) == Len(q.filter) > 0

\* Whether the related-node case of the switch is open: the set of related
\* nodes collected so far is not empty.
RelatedNodesWanted(q, allRelatedNodes) == allRelatedNodes # {}

\* The case of CrossReferences' switch a group of this kind takes: the
\* field of the cross-reference set its anchors go to, "relatedNode", or
\* "none".
XRefCase(q, kind, allRelatedNodes) ==
    IF IsDefKind(q.definitionKind, kind) THEN "definition"
    ELSE IF IsRefKind(q.referenceKind, kind) THEN "reference"
    ELSE IF IsDocKind(q.documentationKind, kind) THEN "documentation"
    ELSE IF RelatedNodesWanted(q, allRelatedNodes) /\ ~IsAnchorEdge(kind)
    THEN "relatedNode"
    ELSE "none"

\* An anchor case of the switch: ca is the outcome of completeAnchors for
\* the group's targets, field the case.
CrossReferencesAnchors(g, xr, field, ca, acc) ==
    IF ca.err # NoErr
    THEN [acc EXCEPT
            !.err = IF ca.err = Panic THEN Panic
                    ELSE Wrap(CASE field = "definition" ->
                                       "error resolving definition anchors"
                                [] field = "reference" ->
                                       "error resolving reference anchors"
                                [] OTHER ->
                                       "error resolving documentation anchors",
                              ca.err),
            !.calls = acc.calls \o ca.calls]
    ELSE [acc EXCEPT
            !.sets = Merge(acc.sets,
                [t \in {g.source} |->
                    [xr EXCEPT ![field] = @ \o ca.anchors,
                               !.count = @ + Len(ca.anchors)]]),
            !.files = ca.files,
            !.calls = acc.calls \o ca.calls]

\* The switch over one edge group: the group's anchors completed into the
\* definitions, references or documentation of its source, or its edges
\* added as related nodes.
CrossReferencesGroup(sees, q, g, edges, o, acc) ==
    LET xr  == IF g.source \in DOMAIN acc.sets THEN acc.sets[g.source]
               ELSE EmptySet(g.source)
        es  == EdgeSeq(edges, PairsOf(o.edges, <<g.source, g.kind>>))
        case == XRefCase(q, g.kind, acc.related)
        related == [i \in 1..Len(es) |->
                      [ticket |-> es[i].targetTicket, relationKind |-> g.kind,
                       ordinal |-> es[i].ordinal]]
    IN  IF case \in {"definition", "reference", "documentation"}
        THEN CrossReferencesAnchors(g, xr, case,
                 completeAnchors(sees, Len(acc.calls), q.anchorText, acc.files,
                                 g.kind,
                                 edgeTickets(es),
                                 PairsOf(o.anchors, <<g.source, g.kind>>)),
                 acc)
        ELSE IF case = "relatedNode"
        THEN [acc EXCEPT
                !.sets = Merge(acc.sets,
                    [t \in {g.source} |->
                        [xr EXCEPT !.relatedNode = @ \o related,
                                   !.count = @ + Len(es)]]),
                !.related = @ \cup {x.targetTicket : x \in edges}]
        ELSE acc

RECURSIVE CrossReferencesGroups(_, _, _, _, _, _)
\* The loops over the edge sets and groups of one Edges reply.
CrossReferencesGroups(sees, q, edgeSets, todo, o, acc) ==
    IF todo = <<>> \/ acc.err # NoErr THEN acc
    ELSE CrossReferencesGroups(sees, q, edgeSets, Tail(todo), o,
             CrossReferencesGroup(sees, q, Head(todo),
                 edgeSets[Head(todo).source][Head(todo).kind], o, acc))

\* The edges request CrossReferences issues for a page token.
XRefEdgesRequest(q, token) ==
    [ticket |-> q.ticket, kind |-> <<>>, filter |-> <<>>,
     pageSize |-> IF q.pageSize = 0 THEN defaultXRefPageSize ELSE q.pageSize,
     pageToken |-> token]

\* Whether the paging loop stops after a page.
PagingDone(token, totalXRefs) == token = "" \/ totalXRefs > 0

RECURSIVE CrossReferencesPages(_, _, _, _, _)
\* The end of one round of the paging loop: page is the outcome of
\* classifying the groups of the current Edges reply; the loop ends once
\* there is a cross-reference or no next page, and otherwise goes on with
\* the Edges reply for the returned token.
CrossReferencesPage(sees, q, o, page) ==
    LET \* a set enters the reply, and the total, only with a positive count
        total == LET D == {t \in DOMAIN page.sets : page.sets[t].count > 0}
                     RECURSIVE sum(_)
                     sum(S) == IF S = {} THEN 0
                               ELSE LET t == CHOOSE x \in S : TRUE
                                    IN  page.sets[t].count + sum(S \ {t})
                 IN  sum(D)
        \* more is the Edges reply for the returned token
        More(more) ==
            IF more.err # NoErr
            THEN [page EXCEPT
                    !.err = Wrap("error getting edges for cross-references", more.err),
                    !.calls = @ \o more.calls]
            ELSE CrossReferencesPages(sees, q, more.reply, o,
                     [page EXCEPT !.calls = @ \o more.calls])
    IN  IF page.err # NoErr THEN page
        ELSE IF PagingDone(page.token, total) THEN page
        ELSE More(Edges(sees, Len(page.calls), XRefEdgesRequest(q, page.token)))

\* The paging loop, one round: the groups of the Edges reply are classified.
CrossReferencesPages(sees, q, eReply, o, acc) ==
    CrossReferencesPage(sees, q, o,
        CrossReferencesGroups(sees, q, eReply.edgeSets,
            GroupSeq(eReply.edgeSets, o), o,
            [acc EXCEPT !.token = eReply.nextPageToken]))

\* CrossReferences after the paging loop, whose outcome is loop: the facts
\* of the related nodes are fetched and the reply built.
CrossReferencesReply(sees, q, loop) ==
    LET fail(e, cs) == [err |-> e, reply |-> NoReply, calls |-> cs]
        kept == {t \in DOMAIN loop.sets : loop.sets[t].count > 0}
        result(ns, cs) ==
            [err |-> NoErr,
             reply |-> [crossReferences |-> Restrict(loop.sets, kept),
                        nodes |-> ns,
                        nextPageToken |-> loop.token],
             calls |-> cs]
        \* nr is the reply of the Nodes call for the related nodes
        Related(nr) ==
            IF nr.err # NoErr
            THEN fail(Wrap("error retrieving related nodes", nr.err),
                      loop.calls \o nr.calls)
            ELSE result(nr.reply.nodes, loop.calls \o nr.calls)
    IN  IF loop.err # NoErr THEN fail(loop.err, loop.calls)
        ELSE IF loop.related # {}
        THEN Related(Nodes(sees, Len(loop.calls), Elements(loop.related),
                           q.filter))
        ELSE result(NoFacts, loop.calls)

\* CrossReferences from the first Edges reply on.
CrossReferencesFirst(sees, q, o, first) ==
    IF first.err # NoErr
    THEN [err |-> Wrap("error getting edges for cross-references", first.err),
          reply |-> NoReply, calls |-> first.calls]
    ELSE CrossReferencesReply(sees, q,
             CrossReferencesPages(sees, q, first.reply, o,
                 [err |-> NoErr, sets |-> <<>>, files |-> <<>>,
                  related |-> {}, token |-> "", calls |-> first.calls]))

\* CrossReferences of a request that sees the store as sees.
CrossReferences(sees, q, o) ==
    IF Len(q.ticket) = 0
    THEN [err |-> <<"no cross-references requested">>, reply |-> NoReply,
          calls |-> <<>>]
    ELSE CrossReferencesFirst(sees, q, o,
             Edges(sees, 0, XRefEdgesRequest(q, q.pageToken)))

(***************************************************************************)
(* Initial stores.                                                         *)
(***************************************************************************)
\* Entries an arbitrary small store is drawn from: forward edges with and
\* without their reverse, an ordinal edge, the edge of the bootstrap example
\* (which carries a fact) and node facts.
SmallUniverse ==
    { Edge(vA1, ChildOf, vF), Edge(vF, Mirror(ChildOf), vA1),
      Edge(vA1, Ref, vX),     Edge(vX, Mirror(Ref), vA1),
      Edge(vX, Param1, vY),
      Entry(vA2, ChildOf, NodeKind, Anchor, vF),
      Fact(vX, NodeKind, Function),
      Fact(vX, AnchorStart, <<"0">>),
      Fact(vY, NodeKind, Function) }

SmallStores == {S \in SUBSET SmallUniverse : Cardinality(S) <= MaxStore}

\* The text of the file of the decoration scenario: "abc\ndef\n".
FileText == <<"a", "b", "c", "\n", "d", "e", "f", "\n">>

\* The (loc/start, loc/end) pairs given to the scenario's anchors: disjoint
\* spans, spans sharing their start, an inverted span, a span past the end
\* of the text.
AnchorSpans == {<<0, 3>>, <<4, 7>>, <<0, 7>>, <<7, 4>>, <<4, 9>>}

AnchorNode(v, span) ==
    { Fact(v, NodeKind, Anchor),
      Fact(v, AnchorStart, Itoa(span[1])),
      Fact(v, AnchorEnd, Itoa(span[2])),
      Edge(v, ChildOf, vF), Edge(vF, Mirror(ChildOf), v) }

\* A file with two anchors: A1 references X and binds Y, A2 references Y.
DecorStore(span1, span2) ==
    { Fact(vF, Text, FileText), Fact(vF, NodeKind, <<"f", "i", "l", "e">>),
      Fact(vX, NodeKind, Function),
      Edge(vA1, Ref, vX), Edge(vX, Mirror(Ref), vA1),
      Edge(vA1, DefinesBinding, vY), Edge(vY, Mirror(DefinesBinding), vA1),
      Edge(vA2, Ref, vY), Edge(vY, Mirror(Ref), vA2) }
        \cup AnchorNode(vA1, span1) \cup AnchorNode(vA2, span2)

\* The decoration scenario with one more child of the file: X, a function
\* node, or Y, which has no facts.
DecorStoreWithChild(v) ==
    DecorStore(<<0, 3>>, <<4, 7>>)
        \cup {Edge(v, ChildOf, vF), Edge(vF, Mirror(ChildOf), v)}

DecorStores ==
    {DecorStore(a, b) : a \in AnchorSpans, b \in AnchorSpans}
        \cup {DecorStoreWithChild(v) : v \in {vX, vY}}

\* The cross-reference scenario: X is bound at anchor A1, referenced at
\* anchor A2 and generates Y; the anchors' file may be missing.
XRefStore(span1, span2, withFile) ==
    { Fact(vX, NodeKind, Function), Fact(vY, NodeKind, Function),
      Edge(vX, Mirror(DefinesBinding), vA1), Edge(vA1, DefinesBinding, vX),
      Edge(vX, Mirror(Ref), vA2), Edge(vA2, Ref, vX),
      Edge(vX, Generates, vY), Edge(vY, Mirror(Generates), vX) }
        \cup AnchorNode(vA1, span1) \cup AnchorNode(vA2, span2)
        \cup (IF withFile THEN {Fact(vF, Text, FileText)} ELSE {})

\* The text of the file of the line snippet scenario: "hello\nworld\n".
SnippetText == <<"h", "e", "l", "l", "o", "\n", "w", "o", "r", "l", "d", "\n">>

\* The line snippet scenario: the anchors at bytes (5,8) and (6,11) of
\* SnippetText, without snippet facts.
SnippetStore ==
    XRefStore(<<5, 8>>, <<6, 11>>, FALSE) \cup {Fact(vF, Text, SnippetText)}

\* "hello\nworld": the last line of the text has no line end.
UnterminatedText == <<"h", "e", "l", "l", "o", "\n", "w", "o", "r", "l", "d">>

\* The line snippet scenario on a last line: the anchor at bytes (6,11) of
\* UnterminatedText, on the line that no line follows.
LastLineStore ==
    XRefStore(<<6, 11>>, <<5, 8>>, FALSE) \cup {Fact(vF, Text, UnterminatedText)}

\* The anchor at bytes (12,12) of SnippetText: the end of the text, on the
\* empty line after the last line end.
EndOfTextStore ==
    XRefStore(<<12, 12>>, <<6, 11>>, FALSE) \cup {Fact(vF, Text, SnippetText)}

\* The cross-reference scenario with X referenced at both anchors.
XRefStoreTwoRefs ==
    XRefStore(<<0, 3>>, <<4, 7>>, TRUE)
        \cup {Edge(vX, Mirror(Ref), vA1), Edge(vA1, Ref, vX)}

XRefStores ==
    {XRefStore(a, b, f) : a \in AnchorSpans, b \in {<<4, 7>>}, f \in BOOLEAN}
        \cup {SnippetStore, LastLineStore, EndOfTextStore, XRefStoreTwoRefs}

\* A file with one anchor whose childof edge has no reverse yet: the
\* bootstrap writes it while a query reads the file's children.
UnmirroredChildStore ==
    { Fact(vF, Text, FileText), Fact(vA1, NodeKind, Anchor),
      Fact(vA1, AnchorStart, Itoa(0)), Fact(vA1, AnchorEnd, Itoa(3)),
      Edge(vA1, ChildOf, vF) }

\* A reverse edge that carries another fact value than its forward edge,
\* beside a forward edge without its reverse.
StaleReverseStore ==
    { Edge(vX, Param1, vY), Edge(vA1, ChildOf, vF),
      Entry(vF, Mirror(ChildOf), EdgeFact, <<"v">>, vA1) }

\* The stores of the specification of all operations: the small stores of at
\* most one entry, stores with forward edges, and the file above.  The
\* decoration and cross-reference scenarios have their own specifications.
MixedStores ==
    {S \in SmallStores : Cardinality(S) <= 1}
        \cup { {Edge(vA1, Ref, vX), Fact(vX, NodeKind, Function)},
               {Edge(vX, Param1, vY), Fact(vY, NodeKind, Function)},
               {Edge(vX, Param1, vY), Edge(vA1, ChildOf, vF),
                Edge(vF, Mirror(ChildOf), vA1)},
               StaleReverseStore,
               UnmirroredChildStore }

(***************************************************************************)
(* The state machine.  Every store call may block, and the service takes   *)
(* no lock: a step is one store call of a request, the last call of a      *)
(* request returning it.  The bootstrap is not run concurrently with       *)
(* itself, and one query is followed at a time: queries do not write, so   *)
(* what a query meets does not depend on the other queries.                *)
(***************************************************************************)
NoTask   == [state |-> "idle"]
Returned == [state |-> "returned"]

InitUnder(stores, contexts) ==
    /\ store \in stores
    /\ ctx \in contexts
    /\ op = "init"
    /\ req = <<>>
    /\ reply = NoReply
    /\ err = NoErr
    /\ calls = <<>>
    /\ prev = store
    /\ boot = NoTask
    /\ task = NoTask

InitWith(stores) == InitUnder(stores, {NoCancel})

\* Whether call k of the calls cs of the bootstrap is a Write the store
\* carries out.
WriteDone(cs, k) ==
    /\ cs[k].op = "Write"
    /\ ~WriteFails(Cardinality({j \in 1..k : cs[j].op = "Write"}))

\* The next store call of the bootstrap b, whose calls so far number b.made:
\* a Write changes the store, the last call returns the request.  The
\* bootstrap is the only writer, so the store changes under it by its own
\* Writes only and b.run, its run on the store it started from, holds the
\* calls it makes.
BootstrapCall(b) ==
    /\ store' = IF WriteDone(b.run.calls, b.made + 1)
                THEN WriteEntry(store, CallEntry(b.run.calls[b.made + 1]))
                ELSE store
    /\ IF b.made + 1 = Len(b.run.calls)
       THEN /\ op' = "EnsureReverseEdges"
            /\ req' = [order |-> b.order]
            /\ reply' = NoReply
            /\ err' = b.run.err
            /\ calls' = b.run.calls
            /\ prev' = b.from
            /\ boot' = NoTask
       ELSE /\ boot' = [b EXCEPT !.made = b.made + 1]
            /\ UNCHANGED <<op, req, reply, err, calls, prev>>
    /\ UNCHANGED <<ctx, task>>

DoEnsureReverseEdges ==
    \/ /\ boot.state = "idle"
       /\ \E o \in ScanOrders :
              \E r \in {EnsureReverseEdges(store, o)} :
                  BootstrapCall([state |-> "running", order |-> o, from |-> store,
                                 run |-> r, made |-> 0])
    \/ /\ boot.state = "running"
       /\ BootstrapCall(boot)

\* The query `name` for the request q under the orders o, seeing the store
\* as sees.
Run(name, sees, q, o) ==
    CASE name = "Nodes"       -> Nodes(sees, 0, q.ticket, q.filter)
      [] name = "Edges"       -> Edges(sees, 0, q)
      [] name = "Decorations" -> Decorations(sees, q, o)
      [] OTHER                -> CrossReferences(sees, q, o)

\* The next store call of a query whose calls so far found the stores seen:
\* the call finds the store as it is now.  The query returns with its last
\* call, or at once when it makes none.
QueryCall(name, q, o, seen) ==
    \E r \in {Run(name, Append(seen, store), q, o)} :
        /\ IF Len(r.calls) <= Len(seen) + 1
           THEN /\ op' = name
                /\ req' = IF name = "Decorations"
                          THEN q @@ [order |-> Order(o.dir, o.lead)]
                          ELSE q
                /\ reply' = r.reply
                /\ err' = r.err
                /\ calls' = r.calls
                /\ prev' = Append(seen, store)[1]
                /\ task' = Returned
           ELSE /\ task' = [state |-> "running", op |-> name, req |-> q,
                            order |-> o, seen |-> Append(seen, store)]
                /\ UNCHANGED <<op, req, reply, err, calls, prev>>
        /\ UNCHANGED <<store, ctx, boot>>

\* A query under way goes on with its next store call.
QueryGoesOn(name) ==
    /\ task.state = "running"
    /\ task.op = name
    /\ QueryCall(name, task.req, task.order, task.seen)

tX == UriToString(vX)
tY == UriToString(vY)
tF == UriToString(vF)
tA1 == UriToString(vA1)
tA2 == UriToString(vA2)

KindFilter == <<"**", "node", "kind">>
LocFilter  == <<"kythe", "loc", "*">>

NodesRequests ==
    [ticket : {<<>>, <<tX, tY>>, <<tX, BadTicket>>, <<tA1>>},
     filter : {<<>>, <<KindFilter>>, <<LocFilter>>}]

DoNodes ==
    \/ /\ task.state # "running"
       /\ \E q \in NodesRequests : QueryCall("Nodes", q, <<>>, <<>>)
    \/ QueryGoesOn("Nodes")

RefBase   == Kind(FALSE, "/kythe/edge/ref", -1)
ParamBase == Kind(FALSE, "/kythe/edge/param", -1)

EdgesRequests ==
    [ticket : {<<>>, <<tA1, tX>>, <<tX, BadTicket>>, <<BadTicket, tX>>},
     kind : {<<>>, <<RefBase, ParamBase>>},
     filter : {<<>>, <<KindFilter>>},
     pageSize : {0},
     pageToken : {""}]
    \cup
    [ticket : {<<tX>>}, kind : {<<>>}, filter : {<<>>}, pageSize : {0},
     pageToken : {"p"}]

DoEdges ==
    \/ /\ task.state # "running"
       /\ \E q \in EdgesRequests : QueryCall("Edges", q, <<>>, <<>>)
    \/ QueryGoesOn("Edges")

FileLoc == Loc(tF, "FILE", NilPoint, NilPoint)
SpanLoc(a, b) == Loc(tF, "SPAN", Pt(a, 0, 0), Pt(b, 0, 0))

DecorationsRequest(l, d, st, r, k, f) ==
    [location |-> l, dirtyBuffer |-> d, sourceText |-> st, references |-> r,
     spanKind |-> k, filter |-> f]

DecorationsRequests ==
    { DecorationsRequest(l, <<>>, FALSE, TRUE, k, <<>>) :
        l \in {FileLoc, SpanLoc(0, 8), SpanLoc(4, 7)},
        k \in {"WITHIN_SPAN", "AROUND_SPAN"} }
    \cup
    { DecorationsRequest(FileLoc, <<>>, FALSE, TRUE, "WITHIN_SPAN", <<KindFilter>>),
      DecorationsRequest(SpanLoc(4, 7), <<>>, TRUE, FALSE, "WITHIN_SPAN", <<>>),
      DecorationsRequest(SpanLoc(7, 4), <<>>, TRUE, TRUE, "WITHIN_SPAN", <<>>),
      DecorationsRequest(FileLoc, <<"x">>, FALSE, TRUE, "WITHIN_SPAN", <<>>),
      DecorationsRequest(NilLocation, <<>>, FALSE, TRUE, "WITHIN_SPAN", <<>>),
      DecorationsRequest(Loc(BadTicket, "FILE", NilPoint, NilPoint),
                         <<>>, FALSE, TRUE, "WITHIN_SPAN", <<>>),
      DecorationsRequest(Loc(tX, "FILE", NilPoint, NilPoint),
                         <<>>, FALSE, TRUE, "WITHIN_SPAN", <<>>) }

\* The orders of ties the sort is given: every order of three positions.
TieOrders == {<<>>, <<1, 3>>, <<2>>, <<2, 3>>, <<3>>, <<3, 2>>}

\* Decorations is given the delivery order of the store's Reads and the
\* order of ties of its sort.
DecorationsOrders == {o @@ [ties |-> t] : o \in ReadOrders, t \in TieOrders}

DoDecorations ==
    \/ /\ task.state # "running"
       /\ \E q \in DecorationsRequests, o \in DecorationsOrders :
              QueryCall("Decorations", q, o, <<>>)
    \/ QueryGoesOn("Decorations")

CrossReferencesRequest(t, d, r, f, p) ==
    [ticket |-> t, definitionKind |-> d, referenceKind |-> r,
     documentationKind |-> "NO_DOCUMENTATION", anchorText |-> TRUE,
     filter |-> f, pageSize |-> 0, pageToken |-> p]

CrossReferencesRequests ==
    { CrossReferencesRequest(t, k[1], k[2], f, "") :
        t \in {<<tX>>, <<tX, tY>>},
        k \in {<<"BINDING_DEFINITIONS", "ALL_REFERENCES">>,
               <<"NO_DEFINITIONS", "NO_REFERENCES">>,
               <<"NO_DEFINITIONS", "ALL_REFERENCES">>},
        f \in {<<>>, <<KindFilter>>} }
    \cup
    { CrossReferencesRequest(<<>>, "NO_DEFINITIONS", "NO_REFERENCES", <<>>, ""),
      CrossReferencesRequest(<<tX, BadTicket>>, "NO_DEFINITIONS", "NO_REFERENCES",
                             <<>>, ""),
      CrossReferencesRequest(<<tX>>, "NO_DEFINITIONS", "NO_REFERENCES", <<>>, "p") }

\* The sequences that list every member of S once.
Perms(S) ==
    {p \in [1..Cardinality(S) -> S] :
        \A i, j \in 1..Cardinality(S) : i # j => p[i] # p[j]}

\* The map orders CrossReferences is given.  The runtime picks the order of
\* each range on its own, so every combination is given: Y's edge set before
\* or after X's, the groups of X in every order, the groups of Y in both
\* orders, the two anchors referencing X in both orders in the edge list,
\* and in both orders in the Nodes reply of their completion.
MapOrders ==
    { MapOrder(s, gx \o gy, e, a) :
        s \in {<<>>, <<tY>>},
        gx \in Perms({<<tX, Mirror(DefinesBinding)>>, <<tX, Mirror(Ref)>>,
                      <<tX, Generates>>}),
        gy \in {<<>>, << <<tY, Mirror(Ref)>> >>},
        e \in {<<>>, << << <<tX, Mirror(Ref)>>,
                          [targetTicket |-> tA2, ordinal |-> 0] >> >>},
        a \in {<<>>, << << <<tX, Mirror(Ref)>>, tA2 >> >>} }

\* The keys the maps of a request on the store st can hold: the sources,
\* groups and targets of its edges and of the reverse edges the bootstrap
\* may write meanwhile.
MapKeys(st) ==
    LET es     == {e \in st : IsEdge(e)}
        all    == es \cup {ReverseOf(e) : e \in {f \in es : IsForward(f.edgeKind)}}
        grp(e) == <<UriToString(e.source), ParseOrdinal(e.edgeKind)[1]>>
    IN  [sets    |-> {UriToString(e.source) : e \in all},
         groups  |-> {grp(e) : e \in all},
         edges   |-> {<<grp(e), [targetTicket |-> UriToString(e.target),
                                 ordinal |-> ParseOrdinal(e.edgeKind)[2]]>> :
                         e \in all},
         anchors |-> {<<grp(e), UriToString(e.target)>> : e \in all}]

\* The map orders for a request on the store st: a choice for a key that no
\* map of the request can hold orders nothing, so the choices are told
\* apart by the keys of MapKeys(st) only.
MapOrdersOn(st) ==
    LET k == MapKeys(st)
    IN  { MapOrder(SelectSeq(o.sets, LAMBDA x : x \in k.sets),
                   SelectSeq(o.groups, LAMBDA x : x \in k.groups),
                   SelectSeq(o.edges, LAMBDA x : x \in k.edges),
                   SelectSeq(o.anchors, LAMBDA x : x \in k.anchors)) :
            o \in MapOrders }

DoCrossReferences ==
    \/ /\ task.state # "running"
       /\ \E q \in CrossReferencesRequests, o \in MapOrdersOn(store) :
              QueryCall("CrossReferences", q, o, <<>>)
    \/ QueryGoesOn("CrossReferences")

\* The stores of the bootstrap under a store call that fails: forward edges
\* without their reverse, one of them with a fact value, and a reverse edge
\* already there.
FailStores ==
    { {Entry(vX, Param1, EdgeFact, <<"v">>, vY), Edge(vA1, ChildOf, vF)},
      {Edge(vX, Param1, vY), Edge(vA1, ChildOf, vF),
       Edge(vF, Mirror(ChildOf), vA1)},
      {Edge(vA1, Ref, vX), Fact(vX, NodeKind, Function)} }

\* One failing store call: the Read of the bootstrap or of a query, a Scan
\* of the bootstrap after some entries, or a Write.
FailContexts ==
    { Context({r}, "", 0, 0, FALSE) :
        r \in {<<vY, Mirror(Param1)>>, <<vF, Mirror(ChildOf)>>,
               <<vX, Mirror(Ref)>>, <<vX, Star>>} }
    \cup { Context({}, "sample", a, 0, FALSE) : a \in {0, 1} }
    \cup { Context({}, "synthesis", a, 0, FALSE) : a \in {0, 1, 2} }
    \cup { Context({}, "", 0, k, FALSE) : k \in {1, 2} }

\* A file whose text is empty, in a store that hands out empty values as nil
\* slices or as empty ones.
EmptyTextStores == { {Fact(vF, Text, Empty)} }
NilContexts == {NoCancel, Context({}, "", 0, 0, TRUE)}

\* All operations, over the mixed stores, and over the stores above under a
\* failing store call.
Init ==
    \/ InitWith(MixedStores)
    \/ InitUnder(FailStores, FailContexts)
    \/ InitUnder(EmptyTextStores, NilContexts)

\* A query does not write: the stores and the positions of the bootstrap
\* that a query meets are those the first query of a behaviour meets, and
\* the specifications follow one query in each behaviour.
FirstQuery == task.state # "returned"

Next ==
    \/ DoEnsureReverseEdges
    \/ FirstQuery /\ DoNodes
    \/ FirstQuery /\ DoEdges
    \/ FirstQuery /\ DoDecorations
    \/ FirstQuery /\ DoCrossReferences

Spec == Init /\ [][Next]_vars

\* The bootstrap, Nodes and Edges over every small store.
InitBootstrap == InitWith(SmallStores)

NextBootstrap ==
    \/ DoEnsureReverseEdges
    \/ FirstQuery /\ DoNodes
    \/ FirstQuery /\ DoEdges

SpecBootstrap == InitBootstrap /\ [][NextBootstrap]_vars

\* Decorations over the files with two anchors.
InitDecorations == InitWith(DecorStores)

NextDecorations == FirstQuery /\ DoDecorations

SpecDecorations == InitDecorations /\ [][NextDecorations]_vars

\* CrossReferences over the cross-reference scenarios.
InitCrossReferences == InitWith(XRefStores)

NextCrossReferences == FirstQuery /\ DoCrossReferences

SpecCrossReferences == InitCrossReferences /\ [][NextCrossReferences]_vars

\* The four queries under a context that one Read finds cancelled.
CancelStores == {DecorStore(<<0, 3>>, <<4, 7>>), XRefStore(<<0, 3>>, <<4, 7>>, TRUE)}

Contexts ==
    {Context({<<v, k>>}, "", 0, 0, FALSE) :
        v \in {vF, vA1, vA2, vX, vY}, k \in {NoKind, Star}}

InitCancel == InitUnder(CancelStores, Contexts)

NextCancel ==
    \/ FirstQuery /\ DoNodes
    \/ FirstQuery /\ DoEdges
    \/ FirstQuery /\ DoDecorations
    \/ FirstQuery /\ DoCrossReferences

SpecCancel == InitCancel /\ [][NextCancel]_vars

(***************************************************************************)
(* Properties.                                                             *)
(***************************************************************************)
ForwardEdges(st) == {e \in st : e.edgeKind # NoKind /\ ~e.edgeKind.rev}
ReverseEdges(st) == {e \in st : e.edgeKind # NoKind /\ e.edgeKind.rev}

\* The entry (t, mirror(k), s, factName, factValue) matching a forward edge.
Matching(e) ==
    [source |-> e.target,
     edgeKind |-> [rev |-> TRUE, base |-> e.edgeKind.base, ord |-> e.edgeKind.ord],
     factName |-> e.factName, factValue |-> e.factValue, target |-> e.source]

ReverseInvariant(st) == \A e \in ForwardEdges(st) : Matching(e) \in st

Written(cs) == {CallEntry(cs[i]) : i \in {j \in 1..Len(cs) : cs[j].op = "Write"}}
WriteCount(cs) == Cardinality({j \in 1..Len(cs) : cs[j].op = "Write"})

\* The bootstrap went on to the synthesis scan of addReverseEdges.
Synthesized == Len(calls) >= 3 /\ calls[3].op = "Scan"

\* C1 as stated: whenever EnsureReverseEdges has returned success, every
\* forward edge entry of the store has its matching reverse entry.
C1_AnyStore ==
    (op = "EnsureReverseEdges" /\ err = NoErr) => ReverseInvariant(store)

\* C1 amended: whenever EnsureReverseEdges has returned success after running
\* the synthesis scan (the first edge it sampled is forward and the Read of
\* the mirror kind at that edge's target delivered nothing), every forward
\* edge entry of the store has its matching reverse entry.
C1_AfterSynthesis ==
    (op = "EnsureReverseEdges" /\ err = NoErr /\ Synthesized)
        => ReverseInvariant(store)

\* A store with partial reverse coverage went through synthesis.
C1_Witness ==
    /\ op = "EnsureReverseEdges" /\ err = NoErr /\ Synthesized
    /\ \E e \in ForwardEdges(prev) : Matching(e) \in prev
    /\ \E e \in ForwardEdges(prev) : Matching(e) \notin prev
    /\ store # prev

\* C2: from a store with a forward edge and no reverse edge,
\* EnsureReverseEdges scans the whole store and issues exactly one Write per
\* forward edge entry, of its matching reverse entry, and no other Write.
C2_MirrorsEveryForwardEdge ==
    (op = "EnsureReverseEdges" /\ ForwardEdges(prev) # {} /\ ReverseEdges(prev) = {})
        => /\ err = NoErr
           /\ Synthesized
           /\ Written(calls) = {Matching(e) : e \in ForwardEdges(prev)}
           /\ WriteCount(calls) = Cardinality(ForwardEdges(prev))
           /\ store = prev \cup {Matching(e) : e \in ForwardEdges(prev)}

\* The bootstrap example: the childof edge carrying a fact, beside a node fact.
C2_Witness ==
    /\ op = "EnsureReverseEdges"
    /\ ReverseEdges(prev) = {}
    /\ Entry(vA2, ChildOf, NodeKind, Anchor, vF) \in prev
    /\ \E e \in prev : e.edgeKind = NoKind
    /\ Entry(vF, Mirror(ChildOf), NodeKind, Anchor, vA2) \in store \ prev

\* C3: on a store of node facts only, EnsureReverseEdges returns success
\* without a Write and leaves the store as it was.
C3_NoEdgesNoWrite ==
    (op = "EnsureReverseEdges" /\ \A e \in prev : e.edgeKind = NoKind)
        => err = NoErr /\ WriteCount(calls) = 0 /\ store = prev

C3_Witness ==
    /\ op = "EnsureReverseEdges"
    /\ Cardinality(prev) >= 2
    /\ \A e \in prev : e.edgeKind = NoKind
    /\ err = NoErr

\* The store the run of EnsureReverseEdges that returns next started from:
\* that of the run under way, or the present store for a run whose only
\* store call is made in the step.
StartedFrom == IF boot.state = "running" THEN boot.from ELSE store

\* C4: a run of EnsureReverseEdges that follows a successful run which left
\* the reverse-edge invariant established issues no Write and leaves the
\* store unchanged, whichever edge its first scan samples: a reverse edge,
\* the run returning at its first store call, or a forward edge, the run
\* returning at the Read of its reverse.  The step is the return of the
\* second run: a step of the bootstrap (no query moves) after which no run
\* is under way.
C4_Idempotent ==
    [][(/\ op = "EnsureReverseEdges" /\ err = NoErr
        /\ ReverseInvariant(StartedFrom)
        /\ task' = task /\ boot'.state = "idle")
          => (/\ op' = "EnsureReverseEdges"
              /\ prev' = StartedFrom
              /\ store' = StartedFrom
              /\ WriteCount(calls') = 0
              /\ err' = NoErr)]_vars

\* A run on a store that an earlier run completed (the reverse of the ordinal
\* edge is in no initial store) whose scan sampled a reverse edge: the store
\* holds edges and the Scan is the run's only call.
C4_Witness ==
    /\ op = "EnsureReverseEdges" /\ err = NoErr
    /\ Edge(vY, Mirror(Param1), vX) \in prev
    /\ ReverseInvariant(prev)
    /\ Len(calls) = 1 /\ calls[1].op = "Scan"
    /\ store = prev

\* The same on a sampled forward edge: the Scan, then the Read that finds
\* its reverse.
C4_ForwardSample ==
    /\ op = "EnsureReverseEdges" /\ err = NoErr
    /\ Edge(vY, Mirror(Param1), vX) \in prev
    /\ ReverseInvariant(prev)
    /\ Len(calls) = 2 /\ calls[2].op = "Read"
    /\ store = prev

\* The facts of ticket t that a Nodes request with this filter is to return.
ExpectedFacts(t, filter) ==
    {e \in store : /\ e.source = [path |-> t.path, signature |-> t.signature]
                   /\ e.edgeKind = NoKind
                   /\ \/ filter = <<>>
                      \/ \E i \in 1..Len(filter) : Matches(filter[i], e.factName)}

\* C5: a successful Nodes reply holds, for each requested ticket, exactly its
\* node facts (all of them under an empty filter, those matching a pattern
\* otherwise), and no entry for a ticket with no retained fact.
C5_NodesFacts ==
    (op = "Nodes" /\ err = NoErr) =>
        /\ DOMAIN reply.nodes \subseteq {req.ticket[i] : i \in 1..Len(req.ticket)}
        /\ \A i \in 1..Len(req.ticket) :
             LET t  == req.ticket[i]
                 fs == ExpectedFacts(t, req.filter)
             IN  IF fs = {} THEN t \notin DOMAIN reply.nodes
                 ELSE /\ t \in DOMAIN reply.nodes
                      /\ DOMAIN reply.nodes[t] = {e.factName : e \in fs}
                      /\ \A e \in fs : reply.nodes[t][e.factName] = e.factValue

\* A filtered reply that keeps one of a ticket's two facts and omits a
\* ticket whose only fact does not match.
C5_Witness ==
    /\ op = "Nodes" /\ err = NoErr
    /\ req.filter = <<LocFilter>>
    /\ req.ticket = <<tX, tY>>
    /\ Fact(vX, NodeKind, Function) \in store
    /\ Fact(vY, NodeKind, Function) \in store
    /\ DOMAIN reply.nodes = {tX}
    /\ DOMAIN reply.nodes[tX] = {AnchorStart}

\* The edge entries of ticket t that an Edges request with these kinds keeps.
RetainedEdges(t, kinds) ==
    {e \in store : /\ e.source = [path |-> t.path, signature |-> t.signature]
                   /\ e.edgeKind # NoKind
                   /\ \/ kinds = <<>>
                      \/ \E i \in 1..Len(kinds) :
                            kinds[i] = [e.edgeKind EXCEPT !.ord = -1]}

\* C6: in a successful Edges reply every EdgeSet has a group, every group an
\* edge and an allowed kind, and a source with no retained edge has no EdgeSet.
C6_EdgeSetsNonEmpty ==
    (op = "Edges" /\ err = NoErr) =>
        /\ \A t \in DOMAIN reply.edgeSets :
             /\ DOMAIN reply.edgeSets[t] # {}
             /\ \A k \in DOMAIN reply.edgeSets[t] :
                  /\ reply.edgeSets[t][k] # {}
                  /\ req.kind # <<>> =>
                        \E i \in 1..Len(req.kind) : req.kind[i] = k
        /\ \A i \in 1..Len(req.ticket) :
             RetainedEdges(req.ticket[i], req.kind) = {}
                => req.ticket[i] \notin DOMAIN reply.edgeSets

\* One source has only edges of kinds outside the allow-list, another an
\* allowed ordinal edge.
C6_Witness ==
    /\ op = "Edges" /\ err = NoErr
    /\ req.kind # <<>>
    /\ Edge(vA1, ChildOf, vF) \in store
    /\ DOMAIN reply.edgeSets = {tX}
    /\ \E k \in DOMAIN reply.edgeSets[tX] : \E x \in reply.edgeSets[tX][k] :
          x.ordinal = 1

\* C7: the references of a successful Decorations reply are in non-strictly
\* ascending order of (anchorStart.byteOffset, anchorEnd.byteOffset).
C7_ReferencesSorted ==
    (op = "Decorations" /\ err = NoErr /\ req.references) =>
        \A i \in 1..(Len(reply.reference) - 1) :
            LET a == reply.reference[i]
                b == reply.reference[i + 1]
            IN  \/ a.anchorStart.byteOffset < b.anchorStart.byteOffset
                \/ /\ a.anchorStart.byteOffset = b.anchorStart.byteOffset
                   /\ a.anchorEnd.byteOffset <= b.anchorEnd.byteOffset

\* The store delivers the anchor with the wider span first, under either
\* direction, and the reply has the narrower one first; both share a start.
C7_Witness ==
    /\ op = "Decorations" /\ err = NoErr /\ req.references
    /\ req.location.kind = "FILE"
    /\ \/ req.order.dir = "asc"  /\ store = DecorStore(<<0, 7>>, <<0, 3>>)
       \/ req.order.dir = "desc" /\ store = DecorStore(<<0, 3>>, <<0, 7>>)
    /\ Len(reply.reference) = 3
    /\ reply.reference[1].anchorEnd.byteOffset = 3
    /\ reply.reference[3].anchorEnd.byteOffset = 7

\* The kinds CrossReferences classifies as a definition, a reference or
\* documentation under the request's masks.
MaskedKind(q, k) ==
    LET c == [k EXCEPT !.rev = FALSE]
    IN  \/ q.definitionKind = "BINDING_DEFINITIONS" /\ c = DefinesBinding
        \/ q.definitionKind = "FULL_DEFINITIONS" /\ c = Defines
        \/ q.definitionKind = "ALL_DEFINITIONS" /\ c \in {Defines, DefinesBinding}
        \/ q.referenceKind \in {"ALL_REFERENCES", "NON_CALL_REFERENCES"} /\ c = Ref
        \/ q.referenceKind \in {"ALL_REFERENCES", "CALL_REFERENCES"} /\ c = RefCall
        \/ q.documentationKind = "ALL_DOCUMENTATION" /\ c = Documents

AnchorKind(k) ==
    [k EXCEPT !.rev = FALSE] \in {Defines, DefinesBinding, Ref, RefCall, Documents}

\* C8 as stated: in a successful CrossReferences reply to a request with a
\* filter, every edge of a requested ticket whose kind matches no mask and is
\* no anchor-edge kind appears as a RelatedNode (ticket, kind, ordinal) of
\* that ticket.
C8_RelatedNodesEmitted ==
    (op = "CrossReferences" /\ err = NoErr /\ Len(req.filter) > 0) =>
        \A i \in 1..Len(req.ticket) : \A e \in store :
            (/\ e.source = [path |-> req.ticket[i].path,
                            signature |-> req.ticket[i].signature]
             /\ e.edgeKind # NoKind
             /\ ~MaskedKind(req, [e.edgeKind EXCEPT !.ord = -1])
             /\ ~AnchorKind([e.edgeKind EXCEPT !.ord = -1]))
            => /\ req.ticket[i] \in DOMAIN reply.crossReferences
               /\ \E j \in 1..Len(reply.crossReferences[req.ticket[i]].relatedNode) :
                    LET n == reply.crossReferences[req.ticket[i]].relatedNode[j]
                    IN  /\ n.ticket = [scheme |-> "kythe", path |-> e.target.path,
                                       signature |-> e.target.signature]
                        /\ n.relationKind = [e.edgeKind EXCEPT !.ord = -1]
                        /\ n.ordinal = IF e.edgeKind.ord >= 0 THEN e.edgeKind.ord
                                       ELSE 0

\* The requests C10 calls invalid.
InvalidRequest ==
    \/ op = "Decorations" /\ \/ Len(req.dirtyBuffer) > 0
                             \/ ~req.location.present
                             \/ req.location.ticket.scheme # "kythe"
    \/ op = "Edges" /\ req.pageToken # ""
    \/ op = "CrossReferences" /\ Len(req.ticket) = 0
    \/ op \in {"Nodes", "Edges", "CrossReferences"}
          /\ \E i \in 1..Len(req.ticket) : req.ticket[i].scheme # "kythe"

\* C10 as stated: an invalid request returns an error and no store call was
\* issued for it.
C10_InvalidRequestNoStoreCall ==
    InvalidRequest => err # NoErr /\ calls = <<>>

(***************************************************************************)
(* Cancellation.                                                           *)
(***************************************************************************)
Queries == {"Nodes", "Edges", "Decorations", "CrossReferences"}

\* The positions in the trace of the Reads that returned the context's error.
CancelledCalls ==
    {i \in 1..Len(calls) :
        calls[i].op = "Read" /\ Cancelled(calls[i].source, calls[i].edgeKind)}

\* A query stops at the store call that returns the context's error, and
\* fails.
CancellationStops ==
    op \in Queries /\ CancelledCalls # {}
        => CancelledCalls = {Len(calls)} /\ err # NoErr

\* C11: when a store call of a query returns the cancellation error, no
\* further store call is issued and the error returned to the caller is
\* that cancellation error itself, neither wrapped nor replaced.
C11_CancellationUnwrapped ==
    op \in Queries /\ CancelledCalls # {}
        => CancelledCalls = {Len(calls)} /\ err = ErrCanceled

(***************************************************************************)
(* The store under the queries and the bootstrap.                          *)
(***************************************************************************)
\* The store st still holds the entry e, or holds another value under e's
\* key, e being a reverse edge entry.
KeptOrRewritten(e, st) ==
    \/ e \in st
    \/ /\ IsEdge(e) /\ IsReverse(e.edgeKind)
       /\ \E f \in st : EntryKey(f) = EntryKey(e)

\* C12, as the code has it: a query issues no Write and no store call of a
\* query changes the store, whether the query succeeds or fails; the store
\* changes by the Writes of EnsureReverseEdges only, which writes reverse
\* edge entries only.  Across every step no key of the store is lost, every
\* node fact and every forward edge is still there unchanged, and every
\* entry added is a reverse edge; a reverse edge entry the store held with
\* another fact value than its forward edge is overwritten.
C12_QueriesReadOnly ==
    [][ /\ \A e \in store : KeptOrRewritten(e, store')
        /\ \A e \in store' \ store : IsEdge(e) /\ IsReverse(e.edgeKind)
        /\ store' # store => boot.state = "running" /\ task' = task
        /\ task' # task => store' = store
        /\ op' \in Queries =>
              \A i \in 1..Len(calls') : calls'[i].op # "Write"
        /\ op' = "EnsureReverseEdges" =>
              /\ \A e \in prev' : KeptOrRewritten(e, store')
              /\ \A e \in Written(calls') : IsEdge(e) /\ IsReverse(e.edgeKind)
      ]_vars

\* C12, as stated: the same, with every entry of the store still there
\* unchanged across every step.
C12_NeverAltersAnEntry ==
    [][ /\ store \subseteq store'
        /\ \A e \in store' \ store : IsEdge(e) /\ IsReverse(e.edgeKind)
        /\ store' # store => boot.state = "running" /\ task' = task
        /\ task' # task => store' = store
        /\ op' \in Queries =>
              \A i \in 1..Len(calls') : calls'[i].op # "Write"
        /\ op' = "EnsureReverseEdges" =>
              /\ prev' \subseteq store'
              /\ \A e \in Written(calls') : IsEdge(e) /\ IsReverse(e.edgeKind)
      ]_vars

\* A bootstrap that added a reverse edge to the store and overwrote the
\* reverse edge the store held with another fact value.
C12_Witness ==
    /\ op = "EnsureReverseEdges"
    /\ \E e \in store \ prev : EntryKey(e) \notin {EntryKey(f) : f \in prev}
    /\ \E e \in prev \ store : \E f \in Written(calls) :
          f \in store /\ EntryKey(f) = EntryKey(e)

(***************************************************************************)
(* The line-based snippet of anchor completion.                            *)
(***************************************************************************)
\* The anchors of a CrossReferences reply.
ReplyAnchors ==
    IF op = "CrossReferences" /\ err = NoErr
    THEN UNION { {x.definition[i] : i \in 1..Len(x.definition)}
                   \cup {x.reference[i] : i \in 1..Len(x.reference)}
                   \cup {x.documentation[i] : i \in 1..Len(x.documentation)} :
                 x \in {reply.crossReferences[t] :
                           t \in DOMAIN reply.crossReferences} }
    ELSE {}

\* The value of a fact of a ticket's node in the store, empty when absent.
StoredFact(t, name) ==
    LET es == {e \in store : /\ e.source = ToVName(t) /\ e.edgeKind = NoKind
                             /\ e.factName = name}
    IN  IF es = {} THEN <<>> ELSE (CHOOSE e \in es : TRUE).factValue

\* The byte offsets at which the lines of a text start.
LineStarts(text) == {0} \cup {i \in 1..Len(text) : text[i] = "\n"}

\* The line snippet of an anchor in a text, read off the text itself: the
\* bytes from the start of the line holding the anchor's start up to the byte
\* before the next line start, the end of the text standing for the next
\* line start when no line follows.
LineSnippetOf(text, a) ==
    LET b    == a.start.byteOffset
        ls   == CHOOSE i \in LineStarts(text) :
                    i <= b /\ \A j \in LineStarts(text) : j <= b => j <= i
        nl   == IF \E i \in LineStarts(text) : i > b
                THEN Min({i \in LineStarts(text) : i > b})
                ELSE Len(text)
        line == Cardinality({i \in LineStarts(text) : i <= b})
    IN  [snippet      |-> SubSeq(text, ls + 1, nl - 1),
         snippetStart |-> Pt(ls, line, 0),
         snippetEnd   |-> Pt(nl - 1, line, nl - 1 - ls)]

SnippetOf(a) ==
    [snippet |-> a.snippet, snippetStart |-> a.snippetStart,
     snippetEnd |-> a.snippetEnd]

NoSnippetFacts(a) ==
    StoredFact(a.ticket, SnippetStart) = <<>> /\ StoredFact(a.ticket, SnippetEnd) = <<>>

\* C13, as the code has it: an anchor without snippet facts is returned with
\* the line snippet of the line holding its start, from the start of that
\* line to the byte before the next line's start.  The anchor at bytes (5,8)
\* of "hello\nworld\n" starts on the newline that ends line 1: its snippet is
\* "hello" from {byte 0, line 1, column 0} to {byte 5, line 1, column 5}; the
\* anchor at (6,11) has "world" from {6, 2, 0} to {11, 2, 5}.  On a last
\* line the end of the text stands for the next line start: the anchor at
\* (6,11) of "hello\nworld" has "worl" from {6, 2, 0} to {10, 2, 4}.
C13_LineSnippet ==
    \A a \in ReplyAnchors :
        NoSnippetFacts(a) =>
            /\ SnippetOf(a) = LineSnippetOf(StoredFact(a.parent, Text), a)
            /\ (store = SnippetStore /\ a.ticket = tA1) =>
                   SnippetOf(a) = [snippet      |-> <<"h", "e", "l", "l", "o">>,
                                   snippetStart |-> Pt(0, 1, 0),
                                   snippetEnd   |-> Pt(5, 1, 5)]
            /\ (store = SnippetStore /\ a.ticket = tA2) =>
                   SnippetOf(a) = [snippet      |-> <<"w", "o", "r", "l", "d">>,
                                   snippetStart |-> Pt(6, 2, 0),
                                   snippetEnd   |-> Pt(11, 2, 5)]
            /\ (store = LastLineStore /\ a.ticket = tA1) =>
                   SnippetOf(a) = [snippet      |-> <<"w", "o", "r", "l">>,
                                   snippetStart |-> Pt(6, 2, 0),
                                   snippetEnd   |-> Pt(10, 2, 4)]

\* C13, as stated: the anchor at bytes (5,8) of "hello\nworld\n" is returned
\* with the snippet "world", from {byte 6, line 2, column 0} to
\* {byte 10, line 2, column 4}.
C13_SpecExample ==
    \A a \in ReplyAnchors :
        (store = SnippetStore /\ a.ticket = tA1 /\ NoSnippetFacts(a)) =>
            SnippetOf(a) = [snippet      |-> <<"w", "o", "r", "l", "d">>,
                            snippetStart |-> Pt(6, 2, 0),
                            snippetEnd   |-> Pt(10, 2, 4)]

\* A reply with the completed anchor at bytes (5,8) of "hello\nworld\n".
C13_Witness ==
    /\ store = SnippetStore
    /\ \E a \in ReplyAnchors :
          /\ a.ticket = tA1 /\ NoSnippetFacts(a)
          /\ a.start.byteOffset = 5 /\ a.end.byteOffset = 8

(***************************************************************************)
(* The children of the file that Decorations passes over.                  *)
(***************************************************************************)
\* The anchor's loc/start fact is a number greater than its loc/end fact.
Inverted(t) ==
    LET s == Atoi(StoredFact(t, AnchorStart))
        e == Atoi(StoredFact(t, AnchorEnd))
    IN  s.ok /\ e.ok /\ s.val > e.val

\* C14: for a file location and for a span location, no Reference of a
\* Decorations reply comes from an anchor whose loc/start is greater than its
\* loc/end.
C14_InvertedAnchorsSkipped ==
    (op = "Decorations" /\ err = NoErr /\ req.references) =>
        \A i \in 1..Len(reply.reference) :
            ~Inverted(reply.reference[i].sourceTicket)

\* The children of the requested file: the targets of its reverse childof
\* edges.
FileChildren ==
    {UriToString(e.target) :
        e \in {x \in store : /\ x.source = ToVName(req.location.ticket)
                             /\ x.edgeKind = Mirror(ChildOf)}}

\* C15: a child of the file whose node/kind is not "anchor", a child without
\* any fact included, does not stop Decorations and contributes no Reference:
\* the reply holds the references of the other children.
C15_NonAnchorChildSkipped ==
    (/\ op = "Decorations" /\ req.references
     /\ \E c \in FileChildren : StoredFact(c, NodeKind) # Anchor) =>
        /\ err # <<"found 0 nodes">>
        /\ err = NoErr =>
              /\ \A i \in 1..Len(reply.reference) :
                    StoredFact(reply.reference[i].sourceTicket, NodeKind) = Anchor
              /\ \A c \in FileChildren :
                    (StoredFact(c, NodeKind) = Anchor /\ req.location.kind = "FILE")
                        => \E i \in 1..Len(reply.reference) :
                               reply.reference[i].sourceTicket = c

\* The part of C15 the code has: a child with facts whose node/kind is not
\* "anchor" is passed over and the other children's references are returned.
NonAnchorChildWithFactsSkipped ==
    (/\ op = "Decorations" /\ req.references /\ store = DecorStoreWithChild(vX)
     /\ req.location = FileLoc /\ req.dirtyBuffer = <<>>) =>
        /\ err = NoErr
        /\ {reply.reference[i].sourceTicket : i \in 1..Len(reply.reference)}
              = {tA1, tA2}

(***************************************************************************)
(* Faults of anchor completion.                                            *)
(***************************************************************************)
\* C16: CrossReferences ends with a reply or an error on every store, the
\* stores whose anchors have a parent file without node facts included: it
\* never faults on the absent file node or on a slice outside the file text.
C16_CompletionNeverFaults ==
    op = "CrossReferences" => err # Panic

====
